---- MODULE Spec2Model ----
(***************************************************************************)
(* The device tree and operation log of yali/storage/devicetree.py         *)
(* (class DeviceTree): _addDevice, _removeDevice, addOperation and         *)
(* removeOperation, with the listings they read (leaves, filesystems,      *)
(* devices).                                                               *)
(*                                                                         *)
(* Device, Partition, NoDevice, the format classes and the Operation       *)
(* classes live in modules the tree imports (devices/, formats/,           *)
(* operations.py); of those only what the tree reads or calls is modelled. *)
(***************************************************************************)
EXTENDS Integers, Sequences, FiniteSets, TLC

\* ------------------------------------------------------------------ bounds
\* longest operation log explored where the tree holds several devices
MaxOps == 1
\* longest operation log explored where the log itself is looked at
MaxLog == 3
\* how far below zero a child counter may be driven (removeChild has no floor)
MaxDebt == 0
\* longest operation log explored where the log is pruned
MaxPruned == 4
\* longest log from which a cancel is explored where the log is pruned
MaxCanceled == 2
MaxOrdered == 3

\* ------------------------------------------------- the objects callers build
\* Device objects with the constructor arguments they were built with.
\*   cls       the class the tree tests with isinstance
\*   path      Device.path
\*   parents   Device.parents
\*   partType  parted type of the partition's partedPartition
\*   hasDisk   the partition is allocated: Partition.disk is not None
DeviceTable ==
    [ sda   |-> [cls |-> "Disk",      path |-> "/dev/sda",  parents |-> {},
                 partType |-> "",         hasDisk |-> FALSE],
      sdb   |-> [cls |-> "Disk",      path |-> "/dev/sdb",  parents |-> {},
                 partType |-> "",         hasDisk |-> FALSE],
      sda1  |-> [cls |-> "Partition", path |-> "/dev/sda1", parents |-> {"sda"},
                 partType |-> "normal",   hasDisk |-> TRUE],
      new1  |-> [cls |-> "Partition", path |-> "/dev/sda1", parents |-> {"sda"},
                 partType |-> "normal",   hasDisk |-> FALSE],
      sda2  |-> [cls |-> "Partition", path |-> "/dev/sda2", parents |-> {"sda"},
                 partType |-> "extended", hasDisk |-> TRUE],
      sda5  |-> [cls |-> "Partition", path |-> "/dev/sda5", parents |-> {"sda"},
                 partType |-> "logical",  hasDisk |-> TRUE],
      vg0   |-> [cls |-> "Device",    path |-> "/dev/vg0",  parents |-> {"sda1"},
                 partType |-> "",         hasDisk |-> FALSE],
      lv5   |-> [cls |-> "Device",    path |-> "/dev/lv5",  parents |-> {"sda5"},
                 partType |-> "",         hasDisk |-> FALSE],
      none1 |-> [cls |-> "NoDevice",  path |-> "none",      parents |-> {},
                 partType |-> "",         hasDisk |-> FALSE],
      none2 |-> [cls |-> "NoDevice",  path |-> "none",      parents |-> {},
                 partType |-> "",         hasDisk |-> FALSE] ]

Cls(d) == DeviceTable[d].cls
Path(d) == DeviceTable[d].path
Parents(d) == DeviceTable[d].parents
PartType(d) == DeviceTable[d].partType
HasDisk(d) == DeviceTable[d].hasDisk

\* Format objects.  mountpoint "" stands for None / no such attribute.
NoFormat == [type |-> "none", mountpoint |-> "", targetSize |-> 0, migrate |-> FALSE]
Ext4Data == [type |-> "ext4", mountpoint |-> "/data", targetSize |-> 0, migrate |-> FALSE]
SwapFmt == [type |-> "swap", mountpoint |-> "", targetSize |-> 0, migrate |-> FALSE]
DiskLabel == [type |-> "disklabel", mountpoint |-> "", targetSize |-> 0, migrate |-> FALSE]

\* formats.filesystem.Filesystem and its subclasses
IsFilesystem(f) == f.type = "ext4"

DeviceKinds == {<<"create", "device">>, <<"destroy", "device">>, <<"resize", "device">>}
FormatKinds == {<<"create", "format">>, <<"destroy", "format">>,
                <<"resize", "format">>, <<"migrate", "format">>}

CreateDestroy == {<<"create", "device">>, <<"destroy", "device">>}

\* The objects one run works with:
\*   devs   the devices that were constructed
\*   found  the devices discovery put into the tree, in the order it met them
\*   fmt    the format discovery gave each device
\*   kinds  the kinds of operation that are registered or canceled
\*   fmts   the formats a format-create brings
\*   cap    the longest log explored
Worlds ==
    [ recreate    |-> [devs |-> {"sda", "sda1", "new1"}, found |-> <<"sda", "sda1">>,
                       fmt |-> [d \in {"sda", "sda1", "new1"} |-> NoFormat],
                       kinds |-> DeviceKinds, fmts |-> {NoFormat}, cap |-> MaxOps],
      stack       |-> [devs |-> {"sda", "sda1", "vg0"}, found |-> <<"sda", "sda1", "vg0">>,
                       fmt |-> [d \in {"sda", "sda1", "vg0"} |-> NoFormat],
                       kinds |-> {<<"destroy", "device">>}, fmts |-> {NoFormat}, cap |-> MaxOps],
      extended    |-> [devs |-> {"sda", "sda2", "sda5"}, found |-> <<"sda", "sda2", "sda5">>,
                       fmt |-> [d \in {"sda", "sda2", "sda5"} |-> NoFormat],
                       kinds |-> CreateDestroy, fmts |-> {NoFormat}, cap |-> MaxOps],
      placeholder |-> [devs |-> {"none1", "none2"}, found |-> <<"none1">>,
                       fmt |-> [d \in {"none1", "none2"} |-> NoFormat],
                       kinds |-> CreateDestroy, fmts |-> {NoFormat}, cap |-> MaxOps],
      mountpoint  |-> [devs |-> {"sda", "sdb"}, found |-> <<"sda", "sdb">>,
                       fmt |-> [d \in {"sda", "sdb"} |->
                                   IF d = "sdb" THEN Ext4Data ELSE NoFormat],
                       kinds |-> {<<"create", "format">>, <<"destroy", "format">>},
                       fmts |-> {Ext4Data, SwapFmt}, cap |-> MaxOps],
      dependents  |-> [devs |-> {"sda", "sda1", "sda2", "sda5", "lv5"},
                       found |-> <<"sda", "sda1", "sda2", "sda5", "lv5">>,
                       fmt |-> [d \in {"sda", "sda1", "sda2", "sda5", "lv5"} |->
                                   IF d = "sda" THEN DiskLabel ELSE NoFormat],
                       kinds |-> CreateDestroy, fmts |-> {NoFormat}, cap |-> MaxOps],
      resize      |-> [devs |-> {"sdb"}, found |-> <<"sdb">>,
                       fmt |-> [d \in {"sdb"} |-> Ext4Data],
                       kinds |-> {<<"resize", "format">>, <<"migrate", "format">>,
                                  <<"resize", "device">>},
                       fmts |-> {NoFormat}, cap |-> MaxOps + 1],
      log         |-> [devs |-> {"sda"}, found |-> <<"sda">>,
                       fmt |-> [d \in {"sda"} |-> NoFormat],
                       kinds |-> DeviceKinds, fmts |-> {NoFormat}, cap |-> MaxLog],
      pruneDevice |-> [devs |-> {"sda"}, found |-> <<"sda">>,
                       fmt |-> [d \in {"sda"} |-> NoFormat],
                       kinds |-> DeviceKinds \cup {<<"create", "format">>},
                       fmts |-> {SwapFmt}, cap |-> MaxPruned],
      pruneTwo    |-> [devs |-> {"sda", "sdb"}, found |-> <<"sda">>,
                       fmt |-> [d \in {"sda", "sdb"} |-> NoFormat],
                       kinds |-> CreateDestroy, fmts |-> {NoFormat}, cap |-> MaxPruned],
      pruneLong   |-> [devs |-> {"sda"}, found |-> <<"sda">>,
                       fmt |-> [d \in {"sda"} |-> NoFormat],
                       kinds |-> CreateDestroy, fmts |-> {NoFormat}, cap |-> MaxPruned + 1],
      pruneFormat |-> [devs |-> {"sdb"}, found |-> <<"sdb">>,
                       fmt |-> [d \in {"sdb"} |-> Ext4Data],
                       kinds |-> {<<"create", "format">>, <<"destroy", "format">>},
                       fmts |-> {Ext4Data}, cap |-> MaxPruned],
      pruneRepeat |-> [devs |-> {"sdb"}, found |-> <<"sdb">>,
                       fmt |-> [d \in {"sdb"} |-> Ext4Data],
                       kinds |-> {<<"resize", "format">>, <<"migrate", "format">>,
                                  <<"create", "format">>},
                       fmts |-> {Ext4Data}, cap |-> MaxPruned],
      orderStack  |-> [devs |-> {"sda", "sda1", "vg0", "sdb"},
                       found |-> <<"sda", "sda1", "vg0", "sdb">>,
                       fmt |-> [d \in {"sda", "sda1", "vg0", "sdb"} |->
                                   IF d \in {"sda", "sdb"} THEN DiskLabel ELSE NoFormat],
                       kinds |-> CreateDestroy, fmts |-> {NoFormat}, cap |-> MaxOrdered],
      orderParts  |-> [devs |-> {"sda", "sda1", "sda2", "sda5"},
                       found |-> <<"sda", "sda1", "sda2", "sda5">>,
                       fmt |-> [d \in {"sda", "sda1", "sda2", "sda5"} |->
                                   IF d = "sda" THEN DiskLabel ELSE NoFormat],
                       kinds |-> CreateDestroy, fmts |-> {NoFormat}, cap |-> MaxOrdered],
      orderNew    |-> [devs |-> {"sda", "sda1", "sda2"}, found |-> <<"sda", "sda1">>,
                       fmt |-> [d \in {"sda", "sda1", "sda2"} |->
                                   IF d = "sda" THEN DiskLabel ELSE NoFormat],
                       kinds |-> CreateDestroy, fmts |-> {NoFormat}, cap |-> MaxOrdered],
      orderKinds  |-> [devs |-> {"sdb"}, found |-> <<"sdb">>,
                       fmt |-> [d \in {"sdb"} |-> Ext4Data],
                       kinds |-> {<<"resize", "device">>, <<"resize", "format">>,
                                  <<"migrate", "format">>, <<"create", "format">>,
                                  <<"destroy", "format">>},
                       fmts |-> {Ext4Data}, cap |-> MaxOrdered],
      orderPath   |-> [devs |-> {"sda", "sda1", "sdb"}, found |-> <<"sda", "sda1", "sdb">>,
                       fmt |-> [d \in {"sda", "sda1", "sdb"} |->
                                   IF d = "sda" THEN DiskLabel ELSE Ext4Data],
                       kinds |-> CreateDestroy \cup {<<"create", "format">>,
                                                     <<"destroy", "format">>},
                       fmts |-> {Ext4Data}, cap |-> MaxOrdered],
      orderResize |-> [devs |-> {"sda", "sda1", "sda2", "vg0"},
                       found |-> <<"sda", "sda1", "sda2", "vg0">>,
                       fmt |-> [d \in {"sda", "sda1", "sda2", "vg0"} |->
                                   IF d = "sda" THEN DiskLabel ELSE Ext4Data],
                       kinds |-> {<<"resize", "device">>, <<"resize", "format">>},
                       fmts |-> {Ext4Data}, cap |-> MaxOrdered] ]

\* the runs in which the tree is looked at, and those in which the log is pruned
TreeWorlds == {"recreate", "stack", "extended", "placeholder", "mountpoint",
               "resize", "log"}
PruneWorlds == {"pruneDevice", "pruneTwo", "pruneLong", "pruneFormat", "pruneRepeat"}
OrderWorlds == {"orderStack", "orderParts", "orderNew", "orderKinds"}
CompareWorlds == {"orderPath", "orderResize"}
ExtendedWorlds == {"orderNew"}
CommitWorlds == {"orderNew", "orderParts"}
BulkWorlds == {"recreate", "stack", "extended", "mountpoint"}

VARIABLES
    world,       \* which of Worlds this run works with
    made,        \* the devices constructed so far
    devices,     \* DeviceTree._devices
    operations,  \* DeviceTree.operations
    kids,        \* Device.kids of every constructed device
    parted,      \* the partitions held by the disks' parted tables
    format,      \* Device.format of every constructed device
    original,    \* Device.originalFormat of every constructed device
    last         \* the last call made on the tree, and how it ended

vars == <<world, made, devices, operations, kids, parted, format, original, last>>

Devs == Worlds[world].devs
Kinds == Worlds[world].kinds
Fmts == Worlds[world].fmts
Cap == Worlds[world].cap

\* ------------------------------------------------------------ list helpers
Contains(seq, x) == \E i \in 1..Len(seq) : seq[i] = x

IndexOf(seq, x) == CHOOSE i \in 1..Len(seq) : seq[i] = x /\ \A j \in 1..(i - 1) : seq[j] # x

\* list.remove(x): the first element equal to x is taken out
ListRemove(seq, x) ==
    LET i == IndexOf(seq, x)
    IN  SubSeq(seq, 1, i - 1) \o SubSeq(seq, i + 1, Len(seq))

\* --------------------------------------------------------------- Device
\* Device.addChild
AddChild(k, ps) == [p \in DOMAIN k |-> IF p \in ps THEN k[p] + 1 ELSE k[p]]

\* Device.__init__ counts the new device as a child of each of its parents
Construct(k, m, d) == IF d \in m THEN k ELSE AddChild(k, Parents(d))

\* the counters once every device of ds has been constructed
KidsAtConstruction(all, ds) ==
    [d \in all |-> Cardinality({c \in ds : d \in Parents(c)})]

\* Device.isleaf
IsLeaf(k, d) == k[d] = 0

\* Device.removeChild
RemoveChild(k, ps) == [p \in DOMAIN k |-> IF p \in ps THEN k[p] - 1 ELSE k[p]]

\* disklabel.logicalPartitions of the disk a partition is on
LogicalPartitions(table, d) ==
    {p \in table : PartType(p) = "logical" /\ Parents(p) = Parents(d)}

\* ------------------------------------------------------- python values
\* Python's == between objects of unrelated classes is False, whatever they
\* hold: a value carries its class.
PyStr(s) == [cls |-> "str", val |-> s]
PyFormat(f) == [cls |-> "Format", val |-> f]
PyEq(a, b) == a.cls = b.cls /\ a.val = b.val

\* x in list
PyIn(x, seq) == \E i \in 1..Len(seq) : PyEq(x, seq[i])

\* ------------------------------------------------------------ operations
IsCreate(op) == op.type = "create"
IsDestroy(op) == op.type = "destroy"
IsResize(op) == op.type = "resize"
IsMigrate(op) == op.type = "migrate"
IsDevice(op) == op.obj = "device"
IsFormat(op) == op.obj = "format"

\* An Operation object as its constructor leaves it: a format operation
\* remembers what it replaces.
NewOperation(id, type, obj, d, fm) ==
    [id |-> id, type |-> type, obj |-> obj, device |-> d,
     origFormat |-> IF obj = "format" /\ type \in {"create", "destroy"}
                    THEN fm[d] ELSE NoFormat,
     origSize |-> IF obj = "format" /\ type = "resize" THEN fm[d].targetSize ELSE 0]

\* What constructing a format operation does to its device's format.
ConstructEffect(fm, op, fmt, size) ==
    IF ~IsFormat(op) THEN fm
    ELSE IF IsCreate(op) THEN [fm EXCEPT ![op.device] = fmt]
    ELSE IF IsDestroy(op) THEN [fm EXCEPT ![op.device] = NoFormat]
    ELSE IF IsResize(op) THEN [fm EXCEPT ![op.device].targetSize = size]
    ELSE [fm EXCEPT ![op.device].migrate = TRUE]

\* Operation.cancel() of a format create, resize or migrate
CancelEffect(fm, op) ==
    IF IsCreate(op) THEN [fm EXCEPT ![op.device] = op.origFormat]
    ELSE IF IsResize(op) THEN [fm EXCEPT ![op.device].targetSize = op.origSize]
    ELSE [fm EXCEPT ![op.device].migrate = FALSE]

\* ------------------------------------------------------------ the tree
NoErr == "ok"

\* The tree and the objects it reaches while one call runs; err is the
\* exception the call has raised.
TreeState(ds, ops, k, t, fm) ==
    [devices |-> ds, operations |-> ops, kids |-> k, parted |-> t, format |-> fm,
     err |-> NoErr]

Raise(S, e) == [S EXCEPT !.err = e]

\* _addDevice had it no test of the path: what the test keeps out of the tree
AddDeviceWithoutPathTest(S, d) ==
    IF S.err # NoErr THEN S
    ELSE IF \E p \in Parents(d) : ~Contains(S.devices, p)
         THEN Raise(S, "DeviceTreeError")
    ELSE [S EXCEPT !.devices = Append(@, d)]

\* DeviceTree._addDevice.  The isinstance test names an unbound variable, so
\* evaluating it raises NameError; `and` evaluates it exactly when the path
\* is already in the tree.
AddDevice(S, d) ==
    IF S.err # NoErr THEN S
    ELSE IF \E i \in 1..Len(S.devices) : Path(S.devices[i]) = Path(d)
         THEN Raise(S, "NameError")
    ELSE IF \E p \in Parents(d) : ~Contains(S.devices, p)
         THEN Raise(S, "DeviceTreeError")
    ELSE [S EXCEPT !.devices = Append(@, d)]

\* DeviceTree._removeDevice.  libOk is the answer of the parted library when
\* asked to remove a partition its table no longer holds.  updateName leaves
\* every name as it is: no table here holds two logical partitions, so
\* parted has nothing to renumber.
RemoveDevice(S, d, force, moddisk, libOk) ==
    IF S.err # NoErr THEN S
    ELSE IF ~Contains(S.devices, d) THEN Raise(S, "ValueError")
    ELSE IF ~IsLeaf(S.kids, d) /\ ~force THEN Raise(S, "ValueError")
    ELSE IF moddisk /\ Cls(d) = "Partition" /\ HasDisk(d)
              /\ PartType(d) = "extended" /\ LogicalPartitions(S.parted, d) # {}
         THEN Raise(S, "ValueError")
    ELSE IF moddisk /\ Cls(d) = "Partition" /\ HasDisk(d)
              /\ d \notin S.parted /\ ~libOk
         THEN Raise(S, "PartitionException")
    ELSE [S EXCEPT !.parted = IF moddisk /\ Cls(d) = "Partition" /\ HasDisk(d)
                              THEN @ \ {d} ELSE @,
                   !.devices = ListRemove(@, d),
                   !.kids = RemoveChild(@, Parents(d))]

\* DeviceTree.getChildren
GetChildren(ds, d) == {c \in {ds[i] : i \in 1..Len(ds)} : d \in Parents(c)}

\* DeviceTree.leaves
Leaves(S) == SelectSeq(S.devices, LAMBDA d : IsLeaf(S.kids, d))

\* DeviceTree.filesystems: the format objects of the leaves that have a
\* mountpoint
Filesystems(S) ==
    LET withMountpoint == SelectSeq(Leaves(S), LAMBDA d : S.format[d].mountpoint # "")
    IN  [i \in 1..Len(withMountpoint) |-> PyFormat(S.format[withMountpoint[i]])]

\* DeviceTree.devices: the listing checks the paths again
DevicesListing(S) ==
    IF \E i \in 1..Len(S.devices) :
           /\ \E j \in 1..(i - 1) : Path(S.devices[j]) = Path(S.devices[i])
           /\ Cls(S.devices[i]) # "NoDevice"
    THEN Raise(S, "DeviceTreeError")
    ELSE S

\* the test of lines 154-156 had it left the resizes out
NeedsDeviceInTreeButResize(op) ==
    IsDestroy(op) \/ (IsCreate(op) /\ IsFormat(op))

\* addOperation, lines 154-156: the operations that need their device in the
\* tree
NeedsDeviceInTree(op) ==
    IsDestroy(op) \/ IsResize(op) \/ (IsCreate(op) /\ IsFormat(op))

\* addOperation, lines 161-163: the loop walks the live list by index, so
\* the element that follows a removed one is skipped.
RECURSIVE RemoveSamePath(_, _, _, _)
RemoveSamePath(S, i, path, libOk) ==
    IF S.err # NoErr \/ i > Len(S.devices) THEN S
    ELSE IF Path(S.devices[i]) = path
         THEN RemoveSamePath(RemoveDevice(S, S.devices[i], FALSE, TRUE, libOk),
                             i + 1, path, libOk)
    ELSE RemoveSamePath(S, i + 1, path, libOk)

\* addOperation had it gone to _addDevice without lines 158-163
RemoveStaleSkipped(S, d, libOk) == S

\* addOperation, lines 158-163: a device-create first takes out its own
\* device and any device that has its path
RemoveStale(S, d, libOk) ==
    RemoveSamePath(IF Contains(S.devices, d)
                   THEN RemoveDevice(S, d, FALSE, TRUE, libOk) ELSE S,
                   1, Path(d), libOk)

\* addOperation, lines 170-171: a mountpoint (a string) is looked up in the
\* list of format objects
MountpointInUse(S, d) ==
    /\ IsFilesystem(S.format[d])
    /\ PyIn(PyStr(S.format[d].mountpoint), Filesystems(S))

\* line 175 had it put the operation at the head of the log
PrependOperation(S, op) == [S EXCEPT !.operations = <<op>> \o @]

\* addOperation, line 175
AppendOperation(S, op) == [S EXCEPT !.operations = Append(@, op)]

\* DeviceTree.addOperation
AddOperation(S, op, libOk) ==
    LET d == op.device
        S1 == IF IsCreate(op) /\ IsDevice(op) THEN RemoveStale(S, d, libOk) ELSE S
        S2 == IF S1.err # NoErr THEN S1
              ELSE IF IsCreate(op) /\ IsDevice(op) THEN AddDevice(S1, d)
              ELSE IF IsDestroy(op) /\ IsDevice(op)
                   THEN RemoveDevice(S1, d, FALSE, TRUE, libOk)
              ELSE IF IsCreate(op) /\ IsFormat(op) /\ MountpointInUse(S1, d)
                   THEN Raise(S1, "DeviceTreeError")
              ELSE S1
    IN  IF NeedsDeviceInTree(op) /\ ~Contains(S.devices, d)
        THEN Raise(S, "DeviceTreeError")
        ELSE IF S2.err # NoErr THEN S2
        ELSE AppendOperation(S2, op)

\* the test of lines 187-188 had it left the migrations out
CallsCancelButMigrate(op) == IsFormat(op) /\ (IsCreate(op) \/ IsResize(op))

\* removeOperation, lines 187-188: the operations whose cancel() is called
CallsCancel(op) == IsFormat(op) /\ (IsCreate(op) \/ IsMigrate(op) \/ IsResize(op))

\* line 191 had it been a removal that lets an absent operation pass
DiscardOperation(S, op) ==
    IF ~Contains(S.operations, op) THEN S
    ELSE [S EXCEPT !.operations = ListRemove(@, op)]

\* removeOperation, line 191: list.remove raises ValueError for an element
\* that is not in the list
DropOperation(S, op) ==
    IF ~Contains(S.operations, op) THEN Raise(S, "ValueError")
    ELSE [S EXCEPT !.operations = ListRemove(@, op)]

\* DeviceTree.removeOperation
RemoveOperation(S, op, libOk) ==
    LET d == op.device
        S1 == IF IsCreate(op) /\ IsDevice(op)
              THEN RemoveDevice(S, d, FALSE, TRUE, libOk)
              ELSE IF IsDestroy(op) /\ IsDevice(op) THEN AddDevice(S, d)
              ELSE IF CallsCancel(op) THEN [S EXCEPT !.format = CancelEffect(@, op)]
              ELSE S
    IN  IF S1.err # NoErr THEN S1 ELSE DropOperation(S1, op)

\* ----------------------------------------------------------- pruning
\* a keyword argument of findOperations that was left out (None)
NoFilter == "None"

\* DeviceTree.findOperations.  Every Device object has its own id, so devid
\* selects by device.
FindOperations(ops, dev, type, obj) ==
    SelectSeq(ops, LAMBDA o : /\ dev = NoFilter \/ o.device = dev
                              /\ type = NoFilter \/ o.type = type
                              /\ obj = NoFilter \/ o.obj = obj)

\* list.index, counted from 0
PyIndex(seq, x) == IndexOf(seq, x) - 1

\* seq[-1]
Last(seq) == seq[Len(seq)]

\* the log while pruneOperations runs; err is the exception it has raised
PruneState(ops) == [ops |-> ops, err |-> NoErr]

\* the removal loop with its range closed before the stop operation
RECURSIVE RemoveBefore(_, _, _, _, _)
RemoveBefore(P, devops, k, start, stop) ==
    IF P.err # NoErr \/ k > Len(devops) THEN P
    ELSE IF ~Contains(P.ops, stop) \/ ~Contains(P.ops, devops[k])
         THEN [P EXCEPT !.err = "ValueError"]
    ELSE LET rem == devops[k]
             P1 == IF start <= PyIndex(P.ops, rem)
                       /\ PyIndex(P.ops, rem) < PyIndex(P.ops, stop)
                    THEN [P EXCEPT !.ops = ListRemove(@, rem)]
                    ELSE P
         IN  IF rem = stop THEN P1 ELSE RemoveBefore(P1, devops, k + 1, start, stop)

\* pruneOperations, lines 512-519 and 646-653: take out the operations of
\* devops that lie from start to the stop operation, that one included.  The
\* positions are looked up in the live log at every turn.
RECURSIVE RemoveThrough(_, _, _, _, _)
RemoveThrough(P, devops, k, start, stop) ==
    IF P.err # NoErr \/ k > Len(devops) THEN P
    ELSE IF ~Contains(P.ops, stop) \/ ~Contains(P.ops, devops[k])
         THEN [P EXCEPT !.err = "ValueError"]
    ELSE LET rem == devops[k]
             P1 == IF start <= PyIndex(P.ops, rem)
                       /\ PyIndex(P.ops, rem) <= PyIndex(P.ops, stop)
                    THEN [P EXCEPT !.ops = ListRemove(@, rem)]
                    ELSE P
         IN  IF rem = stop THEN P1 ELSE RemoveThrough(P1, devops, k + 1, start, stop)

\* pruneOperations, lines 567-574 and 703-710: take out the operations of
\* devops that lie from start up to the stop operation, that one kept
RECURSIVE RemoveUpTo(_, _, _, _, _)
RemoveUpTo(P, devops, k, start, stop) ==
    IF P.err # NoErr \/ k > Len(devops) THEN P
    ELSE IF devops[k] = stop THEN P
    ELSE IF ~Contains(P.ops, stop) \/ ~Contains(P.ops, devops[k])
         THEN [P EXCEPT !.err = "ValueError"]
    ELSE LET rem == devops[k]
             P1 == IF start <= PyIndex(P.ops, rem)
                       /\ PyIndex(P.ops, rem) < PyIndex(P.ops, stop)
                    THEN [P EXCEPT !.ops = ListRemove(@, rem)]
                    ELSE P
         IN  RemoveUpTo(P1, devops, k + 1, start, stop)

\* pruneOperations, lines 593-595, 729-731 and 751-753
RECURSIVE RemoveEach(_, _, _)
RemoveEach(P, rems, k) ==
    IF P.err # NoErr \/ k > Len(rems) THEN P
    ELSE IF ~Contains(P.ops, rems[k]) THEN [P EXCEPT !.err = "ValueError"]
    ELSE RemoveEach([P EXCEPT !.ops = ListRemove(@, rems[k])], rems, k + 1)

\* the operations a pass looks at had they been those of every device
DevOperationsOfAll(ops, dev, obj) ==
    IF obj = "device" THEN ops
    ELSE FindOperations(ops, NoFilter, NoFilter, "format")

\* the operations of a device that a pass over obj looks at: all of them in
\* the device passes (lines 493, 566), those on the format in the format
\* passes (lines 644, 701)
DevOperations(ops, dev, obj) ==
    IF obj = "device" THEN FindOperations(ops, dev, NoFilter, NoFilter)
    ELSE FindOperations(ops, dev, NoFilter, "format")

\* the filter of lines 497-501 had it kept the resizes only
PrecedingResizes(devops) == SelectSeq(devops, LAMBDA o : IsResize(o))

\* lines 497-501: what a lone device-destroy prunes
Preceding(devops) ==
    SelectSeq(devops, LAMBDA o : IsResize(o) \/ (IsFormat(o) /\ ~IsDestroy(o)))

\* a destroy turn that begins at the destroy operation itself
PruneDestroyFromItself(P, a, obj) ==
    LET ops == P.ops
        destroys == FindOperations(ops, a.device, "destroy", obj)
        creates == FindOperations(ops, a.device, "create", obj)
        looped == Len(destroys) > 1
        notPreexisting ==
            /\ creates # <<>>
            /\ ~looped \/ PyIndex(ops, destroys[1]) > PyIndex(ops, creates[1])
        start == IF notPreexisting THEN PyIndex(ops, creates[1])
                 ELSE PyIndex(ops, a)
        devops == DevOperations(ops, a.device, obj)
    IN  IF looped /\ ~Contains(ops, a) THEN [P EXCEPT !.err = "ValueError"]
        ELSE IF notPreexisting /\ destroys = <<>> THEN [P EXCEPT !.err = "IndexError"]
        ELSE IF looped \/ notPreexisting
        THEN RemoveThrough(P, devops, 1, start, Last(destroys))
        ELSE IF obj = "format" \/ Preceding(devops) = <<>> THEN P
        ELSE RemoveThrough(P, Preceding(devops), 1,
                           PyIndex(ops, Preceding(devops)[1]), Last(Preceding(devops)))

\* pruneOperations, lines 456-519 (obj = "device") and 607-653 (obj =
\* "format"): one turn of a destroy pass, for the destroy operation a
PruneDestroy(P, a, obj) ==
    LET ops == P.ops
        destroys == FindOperations(ops, a.device, "destroy", obj)
        creates == FindOperations(ops, a.device, "create", obj)
        looped == Len(destroys) > 1
        notPreexisting ==
            /\ creates # <<>>
            /\ ~looped \/ PyIndex(ops, destroys[1]) > PyIndex(ops, creates[1])
        start == IF notPreexisting THEN PyIndex(ops, creates[1])
                 ELSE PyIndex(ops, a) + 1
        devops == DevOperations(ops, a.device, obj)
    IN  IF looped /\ ~Contains(ops, a) THEN [P EXCEPT !.err = "ValueError"]
        ELSE IF notPreexisting /\ destroys = <<>> THEN [P EXCEPT !.err = "IndexError"]
        ELSE IF looped \/ notPreexisting
        THEN RemoveThrough(P, devops, 1, start, Last(destroys))
        ELSE IF obj = "format" \/ Preceding(devops) = <<>> THEN P
        ELSE RemoveThrough(P, Preceding(devops), 1,
                           PyIndex(ops, Preceding(devops)[1]), Last(Preceding(devops)))

\* a create pass that leaves the log as it finds it
PruneCreateSkipped(P, a, obj) == P

\* pruneOperations, lines 530-574 (obj = "device") and 665-710 (obj =
\* "format"): one turn of a create pass, for the create operation a
PruneCreate(P, a, obj) ==
    LET ops == P.ops
        creates == FindOperations(ops, a.device, "create", obj)
        destroys == FindOperations(ops, a.device, "destroy", obj)
        looped == Len(creates) > 1
        preexisting ==
            /\ destroys # <<>>
            /\ ~looped \/ PyIndex(ops, creates[1]) > PyIndex(ops, destroys[1])
        start == IF preexisting THEN PyIndex(ops, destroys[1]) + 1 ELSE 0
    IN  IF preexisting /\ creates = <<>> THEN [P EXCEPT !.err = "IndexError"]
        ELSE IF looped \/ preexisting
        THEN RemoveUpTo(P, DevOperations(ops, a.device, obj), 1, start, Last(creates))
        ELSE P

\* a resize or migrate turn that keeps the first operation of the family
PruneRepeatedKeepFirst(P, a, type, obj) ==
    LET loops == FindOperations(P.ops, a.device, type, obj)
    IN  IF Len(loops) = 1 THEN P
        ELSE RemoveEach(P, SubSeq(loops, 2, Len(loops)), 1)

\* pruneOperations, lines 585-595, 721-731 and 743-753: one turn of a resize
\* or migrate pass
PruneRepeated(P, a, type, obj) ==
    LET loops == FindOperations(P.ops, a.device, type, obj)
    IN  IF Len(loops) = 1 THEN P
        ELSE RemoveEach(P, SubSeq(loops, 1, Len(loops) - 1), 1)

\* one turn of the pass over the operations of one type and object
PruneTurn(P, a, type, obj) ==
    IF type = "destroy" THEN PruneDestroy(P, a, obj)
    ELSE IF type = "create" THEN PruneCreate(P, a, obj)
    ELSE PruneRepeated(P, a, type, obj)

\* a pass that took its turn with an operation the log no longer holds
RECURSIVE PruneVisitRemoved(_, _, _, _, _)
PruneVisitRemoved(P, found, j, type, obj) ==
    IF P.err # NoErr \/ j > Len(found) THEN P
    ELSE PruneVisitRemoved(PruneTurn(P, found[j], type, obj), found, j + 1, type, obj)

\* a pass: the operations found when it starts are visited in turn, those
\* taken out since then are skipped (lines 449-453 and alike)
RECURSIVE PruneVisit(_, _, _, _, _)
PruneVisit(P, found, j, type, obj) ==
    IF P.err # NoErr \/ j > Len(found) THEN P
    ELSE IF ~Contains(P.ops, found[j]) THEN PruneVisit(P, found, j + 1, type, obj)
    ELSE PruneVisit(PruneTurn(P, found[j], type, obj), found, j + 1, type, obj)

PrunePass(P, type, obj) ==
    IF P.err # NoErr THEN P
    ELSE PruneVisit(P, FindOperations(P.ops, NoFilter, type, obj), 1, type, obj)

\* the passes in the order pruneOperations makes them
PruneOrder ==
    << <<"destroy", "device">>, <<"create", "device">>, <<"resize", "device">>,
       <<"destroy", "format">>, <<"create", "format">>, <<"resize", "format">>,
       <<"migrate", "format">> >>

RECURSIVE PrunePasses(_, _)
PrunePasses(P, n) ==
    IF n > Len(PruneOrder) THEN P
    ELSE PrunePasses(PrunePass(P, PruneOrder[n][1], PruneOrder[n][2]), n + 1)

\* DeviceTree.pruneOperations
PruneOperations(ops) == PrunePasses(PruneState(ops), 1)

\* ----------------------------------------------------------- ordering
\* Device.name, as it compares with the names of the other devices
NameRank ==
    [ sda |-> 1, sda1 |-> 2, new1 |-> 2, sda2 |-> 3, sda5 |-> 4, sdb |-> 5,
      vg0 |-> 6, none1 |-> 7, none2 |-> 7 ]

\* Partition.partedPartition.number
PartitionNumber == [ sda1 |-> 1, new1 |-> 1, sda2 |-> 2, sda5 |-> 5 ]

\* the devices whose resize operations grow them; the others are shrunk
Grown == {"sda1", "vg0"}

\* Operation.isGrow
IsGrow(op) == op.device \in Grown

\* isinstance(device, Partition)
IsPartition(d) == Cls(d) = "Partition"

\* Partition.disk
Disk(d) == CHOOSE p \in Parents(d) : TRUE

\* Device.partitioned
Partitioned(fm, d) == fm[d].type = "disklabel"

\* the devices a device is built on, its parents and theirs
RECURSIVE Ancestors(_)
Ancestors(d) == Parents(d) \cup UNION {Ancestors(p) : p \in Parents(d)}

\* Device.dependsOn, and Partition.dependsOn: a logical partition depends on
\* the extended partition of its disk
DependsOn(a, b) ==
    \/ /\ IsPartition(a) /\ IsPartition(b)
       /\ PartType(b) = "extended" /\ PartType(a) = "logical"
       /\ Disk(a) = Disk(b)
    \/ b \in Ancestors(a)

\* getDependentDevices had it asked every device for dep only
GetDependentDevicesOfDep(ds, dep) == SelectSeq(ds, LAMBDA device : DependsOn(device, dep))

\* DeviceTree.getDependentDevices, lines 1054-1075: for an extended partition
\* the logical partitions of its disk are collected first; a device of the
\* tree is appended once, when it depends on dep or else on one of them
GetDependentDevices(ds, dep) ==
    LET logicals == IF IsPartition(dep) /\ PartType(dep) = "extended"
                    THEN SelectSeq(ds, LAMBDA partition :
                             /\ IsPartition(partition)
                             /\ PartType(partition) = "logical"
                             /\ Disk(partition) = Disk(dep))
                    ELSE <<>>
    IN  SelectSeq(ds, LAMBDA device :
            \/ DependsOn(device, dep)
            \/ \E i \in 1..Len(logicals) : DependsOn(device, logicals[i]))

\* cmp with its answers the other way round
PyCmpBackwards(x, y) == IF x < y THEN 1 ELSE IF x > y THEN -1 ELSE 0

\* the builtin cmp on numbers
PyCmp(x, y) == IF x < y THEN -1 ELSE IF x > y THEN 1 ELSE 0

\* cmpOperations, lines 236-272: two destroys
CmpDestroys(fm, a1, a2) ==
    LET d1 == a1.device
        d2 == a2.device
    IN  IF Path(d1) = Path(d2)
        THEN IF IsFormat(a1) /\ IsFormat(a2) THEN 0
             ELSE IF IsFormat(a1) /\ ~IsFormat(a2) THEN -1
             ELSE IF ~IsFormat(a1) /\ IsFormat(a2) THEN 1
             ELSE 0
        ELSE IF DependsOn(d1, d2) THEN -1
        ELSE IF DependsOn(d2, d1) THEN 1
        ELSE IF IsPartition(d1) /\ IsPartition(d2)
             THEN IF Disk(d1) = Disk(d2)
                  THEN PyCmp(PartitionNumber[d2], PartitionNumber[d1])
                  ELSE PyCmp(NameRank[d2], NameRank[d1])
        ELSE IF IsPartition(d1) /\ Partitioned(fm, d2) THEN -1
        ELSE IF IsPartition(d2) /\ Partitioned(fm, d1) THEN 1
        ELSE IF IsPartition(d1) /\ ~IsPartition(d2) THEN 1
        ELSE IF IsPartition(d2) /\ ~IsPartition(d1) THEN -1
        ELSE 0

\* cmpOperations, lines 277-309: two resizes
CmpResizes(a1, a2) ==
    LET d1 == a1.device
        d2 == a2.device
    IN  IF Path(d1) = Path(d2)
        THEN IF a1.obj = a2.obj THEN 0
             ELSE IF IsFormat(a1) /\ ~IsFormat(a2)
                  THEN IF IsGrow(a1) THEN 1 ELSE -1
             ELSE IF ~IsFormat(a1) /\ IsFormat(a2)
                  THEN IF IsGrow(a1) THEN -1 ELSE 1
             ELSE PyCmp(NameRank[d1], NameRank[d2])
        ELSE IF DependsOn(d1, d2) THEN IF IsGrow(a1) THEN 1 ELSE -1
        ELSE IF DependsOn(d2, d1) THEN IF IsGrow(a1) THEN -1 ELSE 1
        ELSE IF IsPartition(d1) /\ IsPartition(d2)
             THEN PyCmp(NameRank[d1], NameRank[d2])
        ELSE 0

\* cmpOperations, lines 314-349: two creates.  For one path the test of the
\* objects at line 316 is followed by a second if, which sets ret again.
CmpCreates(fm, a1, a2) ==
    LET d1 == a1.device
        d2 == a2.device
    IN  IF Path(d1) = Path(d2)
        THEN IF IsFormat(a1) THEN 1
             ELSE IF IsFormat(a2) THEN -1
             ELSE 0
        ELSE IF DependsOn(d1, d2) THEN 1
        ELSE IF DependsOn(d2, d1) THEN -1
        ELSE IF IsPartition(d1) /\ IsPartition(d2)
             THEN IF Disk(d1) = Disk(d2)
                  THEN PyCmp(PartitionNumber[d1], PartitionNumber[d2])
                  ELSE PyCmp(NameRank[d1], NameRank[d2])
        ELSE IF IsPartition(d1) /\ Partitioned(fm, d2) THEN 1
        ELSE IF IsPartition(d2) /\ Partitioned(fm, d1) THEN -1
        ELSE IF IsPartition(d1) /\ ~IsPartition(d2) THEN -1
        ELSE IF IsPartition(d2) /\ ~IsPartition(d1) THEN 1
        ELSE 0

\* cmpOperations, lines 354-369: two migrates
CmpMigrates(a1, a2) ==
    LET d1 == a1.device
        d2 == a2.device
    IN  IF Path(d1) = Path(d2) THEN 0
        ELSE IF DependsOn(d1, d2) THEN 1
        ELSE IF DependsOn(d2, d1) THEN -1
        ELSE IF IsPartition(d1) /\ IsPartition(d2)
             THEN IF Disk(d1) = Disk(d2)
                  THEN PyCmp(PartitionNumber[d1], PartitionNumber[d2])
                  ELSE PyCmp(NameRank[d1], NameRank[d2])
        ELSE 0

\* the comparator with a resize put after a create
CmpOperationsCreateFirst(fm, a1, a2) ==
    IF IsDestroy(a1) /\ IsDestroy(a2) THEN CmpDestroys(fm, a1, a2)
    ELSE IF IsDestroy(a1) THEN -1
    ELSE IF IsDestroy(a2) THEN 1
    ELSE IF IsCreate(a1) /\ IsCreate(a2) THEN CmpCreates(fm, a1, a2)
    ELSE IF IsCreate(a1) THEN -1
    ELSE IF IsCreate(a2) THEN 1
    ELSE IF IsResize(a1) /\ IsResize(a2) THEN CmpResizes(a1, a2)
    ELSE IF IsResize(a1) THEN -1
    ELSE IF IsResize(a2) THEN 1
    ELSE IF IsMigrate(a1) /\ IsMigrate(a2) THEN CmpMigrates(a1, a2)
    ELSE 0

\* processOperations.cmpOperations; fm is the format each device has
CmpOperations(fm, a1, a2) ==
    IF IsDestroy(a1) /\ IsDestroy(a2) THEN CmpDestroys(fm, a1, a2)
    ELSE IF IsDestroy(a1) THEN -1
    ELSE IF IsDestroy(a2) THEN 1
    ELSE IF IsResize(a1) /\ IsResize(a2) THEN CmpResizes(a1, a2)
    ELSE IF IsResize(a1) THEN -1
    ELSE IF IsResize(a2) THEN 1
    ELSE IF IsCreate(a1) /\ IsCreate(a2) THEN CmpCreates(fm, a1, a2)
    ELSE IF IsCreate(a1) THEN -1
    ELSE IF IsCreate(a2) THEN 1
    ELSE IF IsMigrate(a1) /\ IsMigrate(a2) THEN CmpMigrates(a1, a2)
    ELSE 0

\* list.sort asks only whether cmp(x, y) < 0
IsLess(fm, x, y) == CmpOperations(fm, x, y) < 0

\* list.sort on a list of fewer than 64 elements: the run the list begins
\* with ends before place RunEnd + 1; i is the place looked at
RECURSIVE RunEnd(_, _, _, _)
RunEnd(fm, s, i, descending) ==
    IF i > Len(s) THEN i - 1
    ELSE IF IsLess(fm, s[i], s[i - 1]) = descending THEN RunEnd(fm, s, i + 1, descending)
    ELSE i - 1

Reversed(s) == [i \in 1..Len(s) |-> s[Len(s) + 1 - i]]

\* list.sort: the place binary insertion finds for pivot between l and r
RECURSIVE InsertionPlace(_, _, _, _, _)
InsertionPlace(fm, s, pivot, l, r) ==
    IF l >= r THEN l
    ELSE LET p == l + ((r - l) \div 2)
         IN  IF IsLess(fm, pivot, s[p]) THEN InsertionPlace(fm, s, pivot, l, p)
             ELSE InsertionPlace(fm, s, pivot, p + 1, r)

\* list.sort: binary insertion of the elements from place start on
RECURSIVE BinarySort(_, _, _)
BinarySort(fm, s, start) ==
    IF start > Len(s) THEN s
    ELSE LET l == InsertionPlace(fm, s, s[start], 1, start)
         IN  BinarySort(fm, SubSeq(s, 1, l - 1) \o <<s[start]>>
                            \o SubSeq(s, l, start - 1)
                            \o SubSeq(s, start + 1, Len(s)),
                        start + 1)

\* self.operations.sort(cmp=cmpOperations), line 424
SortOperations(fm, s) ==
    IF Len(s) < 2 THEN s
    ELSE LET descending == IsLess(fm, s[2], s[1])
             n == RunEnd(fm, s, 3, descending)
             run == IF descending
                    THEN Reversed(SubSeq(s, 1, n)) \o SubSeq(s, n + 1, Len(s))
                    ELSE s
         IN  BinarySort(fm, run, n + 1)

\* ------------------------------------------------------------- the calls
\* a new tree
Init ==
    /\ world \in TreeWorlds
    /\ made = {}
    /\ devices = <<>>
    /\ operations = <<>>
    /\ kids = [d \in Devs |-> 0]
    /\ parted = {d \in Devs : HasDisk(d)}
    /\ format = Worlds[world].fmt
    /\ original = Worlds[world].fmt
    /\ last = [call |-> "init", res |-> NoErr]

\* the tree as discovery (populate) leaves it
InitPopulated ==
    /\ world \in TreeWorlds \cup {"dependents"}
    /\ devices = Worlds[world].found
    /\ made = {devices[i] : i \in 1..Len(devices)}
    /\ operations = <<>>
    /\ kids = KidsAtConstruction(Devs, made)
    /\ parted = {d \in Devs : HasDisk(d)}
    /\ format = Worlds[world].fmt
    /\ original = Worlds[world].fmt
    /\ last = [call |-> "init", res |-> NoErr]

InDebtBound(k) == \A d \in DOMAIN k : k[d] >= -MaxDebt

\* a device is built from its parents, so they were built before it
Buildable(d) == d \in made \/ Parents(d) \subseteq made

\* the tree as a call finds it, its device argument built if it was not yet
Now(d) == TreeState(devices, operations, Construct(kids, made, d), parted, format)

\* the identity of the next Operation object
FreshId == CHOOSE i \in 1..(Len(operations) + 1) :
               \A j \in 1..Len(operations) : operations[j].id # i

\* a resize or migrate is built for a filesystem only
Constructible(type, obj, d) ==
    (obj = "format" /\ type \in {"resize", "migrate"}) => IsFilesystem(format[d])

\* the operation object a caller builds: one of the log has an id above 0
Built(id, type, obj, d) == NewOperation(id, type, obj, d, format)

\* what tree._addDevice(d) does to the tree as it is now
AddResult(d) == AddDevice(Now(d), d)

\* what tree._removeDevice(d, force) does; no caller passes moddisk
RemoveResult(d, force, libOk) == RemoveDevice(Now(d), d, force, TRUE, libOk)

\* what tree.addOperation(Operation(d, ...)) does, the operation built for it
RegisterResult(type, obj, d, fmt, libOk) ==
    LET op == Built(FreshId, type, obj, d)
    IN  AddOperation([Now(d) EXCEPT !.format = ConstructEffect(@, op, fmt, 1)], op, libOk)

\* what tree.removeOperation(op) does for the i-th operation of the log
CancelResult(i, libOk) ==
    RemoveOperation(Now(operations[i].device), operations[i], libOk)

\* what tree.removeOperation(Operation(d, ...)) does for an operation that
\* was built and never registered
CancelUnloggedResult(type, obj, d, fmt, libOk) ==
    LET op == Built(0, type, obj, d)
    IN  RemoveOperation([Now(d) EXCEPT !.format = ConstructEffect(@, op, fmt, 1)],
                        op, libOk)

\* the call ends: what it did to the tree stays, also when it raised
Return(name, S, d) ==
    /\ InDebtBound(S.kids)
    /\ made' = made \cup {d}
    /\ devices' = S.devices
    /\ operations' = S.operations
    /\ kids' = S.kids
    /\ parted' = S.parted
    /\ format' = S.format
    /\ last' = [call |-> name, res |-> S.err]
    /\ UNCHANGED <<world, original>>

Add(d) ==
    /\ Buildable(d)
    /\ Return("add", AddResult(d), d)

Remove(d, libOk) ==
    /\ d \in made
    /\ Return("remove", RemoveResult(d, FALSE, libOk), d)

RemoveForced(d, libOk) ==
    /\ d \in made
    /\ Return("removeForced", RemoveResult(d, TRUE, libOk), d)

Register(type, obj, d, fmt, libOk) ==
    /\ Len(operations) < Cap
    /\ Buildable(d)
    /\ Constructible(type, obj, d)
    /\ Return("register", RegisterResult(type, obj, d, fmt, libOk), d)

Cancel(i, libOk) ==
    /\ i \in 1..Len(operations)
    /\ Return("cancel", CancelResult(i, libOk), operations[i].device)

CancelUnlogged(type, obj, d, fmt, libOk) ==
    /\ Buildable(d)
    /\ Constructible(type, obj, d)
    /\ Return("cancelUnlogged", CancelUnloggedResult(type, obj, d, fmt, libOk), d)

\* the formats a caller passes with an operation of this kind
FmtsFor(k) == IF k = <<"create", "format">> THEN Fmts ELSE {NoFormat}

\* the parted library has a choice only when asked for a partition its table
\* does not hold
LibAnswers(d) == IF Cls(d) = "Partition" /\ HasDisk(d) /\ d \notin parted
                 THEN BOOLEAN ELSE {TRUE}

AddStep == \E d \in Devs : Add(d)

RemoveStep == \E d \in Devs : \E libOk \in LibAnswers(d) : Remove(d, libOk)

RemoveForcedStep == \E d \in Devs : \E libOk \in LibAnswers(d) : RemoveForced(d, libOk)

RegisterStep ==
    \E k \in Kinds : \E d \in Devs : \E fmt \in FmtsFor(k) : \E libOk \in LibAnswers(d) :
        Register(k[1], k[2], d, fmt, libOk)

CancelStep ==
    \E i \in 1..Len(operations) : \E libOk \in LibAnswers(operations[i].device) :
        Cancel(i, libOk)

CancelUnloggedStep ==
    \E k \in Kinds : \E d \in Devs : \E fmt \in FmtsFor(k) : \E libOk \in LibAnswers(d) :
        CancelUnlogged(k[1], k[2], d, fmt, libOk)

Next ==
    \/ AddStep
    \/ RemoveStep
    \/ RemoveForcedStep
    \/ RegisterStep
    \/ CancelStep
    \/ CancelUnloggedStep

\* every call, on a new tree
Spec == Init /\ [][Next]_vars

NextLogged ==
    \/ AddStep
    \/ RemoveStep
    \/ RemoveForcedStep
    \/ RegisterStep
    \/ CancelStep

\* every call on a new tree, removeOperation for logged operations only
SpecLogged == Init /\ [][NextLogged]_vars

NextNoForce ==
    \/ AddStep
    \/ RemoveStep
    \/ RegisterStep
    \/ CancelStep
    \/ CancelUnloggedStep

\* every call but the forced remove, on a new tree
SpecNoForce == Init /\ [][NextNoForce]_vars

NextOps ==
    \/ RegisterStep
    \/ CancelStep

\* register, and cancel of logged operations, on a populated tree
SpecOps == InitPopulated /\ [][NextOps]_vars

\* the tree as discovery leaves it, in the runs that prune
InitPrune ==
    /\ world \in PruneWorlds
    /\ devices = Worlds[world].found
    /\ made = {devices[i] : i \in 1..Len(devices)}
    /\ operations = <<>>
    /\ kids = KidsAtConstruction(Devs, made)
    /\ parted = {d \in Devs : HasDisk(d)}
    /\ format = Worlds[world].fmt
    /\ original = Worlds[world].fmt
    /\ last = [call |-> "init", res |-> NoErr]

\* tree.pruneOperations(): what it leaves of the log stays, also when it
\* raised
PruneStep ==
    /\ operations # <<>>
    /\ operations' = PruneOperations(operations).ops
    /\ last' = [call |-> "prune", res |-> PruneOperations(operations).err]
    /\ UNCHANGED <<world, made, devices, kids, parted, format, original>>

\* a cancel from a log that is short enough
ShortCancelStep == Len(operations) <= MaxCanceled /\ CancelStep

NextPrune ==
    \/ RegisterStep
    \/ ShortCancelStep
    \/ PruneStep

\* register, cancel of logged operations and pruning, on a populated tree
SpecPrune == InitPrune /\ [][NextPrune]_vars

\* the tree as discovery leaves it, in the runs that order the log
InitOrder ==
    /\ world \in OrderWorlds
    /\ devices = Worlds[world].found
    /\ made = {devices[i] : i \in 1..Len(devices)}
    /\ operations = <<>>
    /\ kids = KidsAtConstruction(Devs, made)
    /\ parted = {d \in Devs : HasDisk(d)}
    /\ format = Worlds[world].fmt
    /\ original = Worlds[world].fmt
    /\ last = [call |-> "init", res |-> NoErr]

\* Device.exists: discovery found the device on disk
Exists(d) == Contains(Worlds[world].found, d)

\* processOperations had it gone from the fix-ups straight to the pruning
CreateExtendedSkipped(ops, ds, i) == ops

\* processOperations, lines 408-413: a create-device is appended to the log
\* for every extended partition of the tree that does not exist yet
RECURSIVE CreateExtended(_, _, _)
CreateExtended(ops, ds, i) ==
    IF i > Len(ds) THEN ops
    ELSE IF IsPartition(ds[i]) /\ PartType(ds[i]) = "extended" /\ ~Exists(ds[i])
         THEN CreateExtended(
                  Append(ops, NewOperation(
                      CHOOSE n \in 1..(Len(ops) + 1) :
                          \A j \in 1..Len(ops) : ops[j].id # n,
                      "create", "device", ds[i], format)),
                  ds, i + 1)
    ELSE CreateExtended(ops, ds, i + 1)

\* processOperations up to line 426: the log with the creates of the extended
\* partitions, pruned and, unless pruning raised, sorted
ProcessResult ==
    LET P == PruneOperations(CreateExtended(operations, devices, 1))
    IN  IF P.err # NoErr THEN P
        ELSE [P EXCEPT !.ops = SortOperations(format, P.ops)]

\* ------------------------------------------------------------ the commit
\* how often in a row the execute of an operation raises DiskLabelCommitError
Failing == 0..2

\* what a commit has done so far: the calls it made on operations and
\* devices, in order, and the exception that ended it
Commit(evs, err) == [events |-> evs, err |-> err]

PruneCalled == [ev |-> "pruneOperations", op |-> 0, res |-> NoErr]
SortCalled == [ev |-> "sort", op |-> 0, res |-> NoErr]
Executed(op, res) == [ev |-> "execute", op |-> op.id, res |-> res]
TornDown == [ev |-> "teardownAll", op |-> 0, res |-> NoErr]
Settled == [ev |-> "udev_settle", op |-> 0, res |-> NoErr]
Renamed(d) == [ev |-> "updateName", op |-> 0, res |-> NoErr, device |-> d,
               formatDevice |-> Path(d)]

\* Device.exists once the first i operations of ops are executed: the execute
\* of a create-device leaves the device existing, that of a destroy-device
\* leaves it gone
RECURSIVE ExistsAfter(_, _, _)
ExistsAfter(ops, i, d) ==
    IF i = 0 THEN Exists(d)
    ELSE IF ops[i].device = d /\ IsDevice(ops[i]) /\ IsCreate(ops[i]) THEN TRUE
    ELSE IF ops[i].device = d /\ IsDevice(ops[i]) /\ IsDestroy(ops[i]) THEN FALSE
    ELSE ExistsAfter(ops, i - 1, d)

\* the loop of lines 440-444 had it looked at the device of the operation only
ResyncOperated(ops, i) ==
    LET renamed == SelectSeq(devices, LAMBDA d : d = ops[i].device /\ ExistsAfter(ops, i, d)
                                                    /\ IsPartition(d))
    IN  <<Settled>> \o [k \in 1..Len(renamed) |-> Renamed(renamed[k])]

\* processOperations, lines 439-444: after an execute the kernel's events are
\* waited for and every existing partition of the tree takes its name and
\* the path of its format from the partition table again
Resync(ops, i) ==
    LET renamed == SelectSeq(devices, LAMBDA d : ExistsAfter(ops, i, d) /\ IsPartition(d))
    IN  <<Settled>> \o [k \in 1..Len(renamed) |-> Renamed(renamed[k])]

\* the loop without the teardown before the second execute
RECURSIVE ExecuteWithoutTeardown(_, _, _, _)
ExecuteWithoutTeardown(ops, i, fails, C) ==
    IF i > Len(ops) THEN C
    ELSE IF fails[i] = 0
         THEN ExecuteWithoutTeardown(ops, i + 1, fails,
                  Commit(Append(C.events, Executed(ops[i], NoErr)) \o Resync(ops, i),
                         NoErr))
    ELSE LET failed == Append(C.events, Executed(ops[i], "DiskLabelCommitError"))
         IN  IF fails[i] = 1
             THEN ExecuteWithoutTeardown(ops, i + 1, fails,
                      Commit(Append(failed, Executed(ops[i], NoErr)) \o Resync(ops, i),
                             NoErr))
             ELSE Commit(Append(failed, Executed(ops[i], "DiskLabelCommitError")),
                         "DiskLabelCommitError")

\* processOperations, lines 428-444 with dryRun false: every operation is
\* executed in turn; after a DiskLabelCommitError all devices are torn down
\* and the operation is executed again, outside any try
RECURSIVE Execute(_, _, _, _)
Execute(ops, i, fails, C) ==
    IF i > Len(ops) THEN C
    ELSE IF fails[i] = 0
         THEN Execute(ops, i + 1, fails,
                      Commit(Append(C.events, Executed(ops[i], NoErr)) \o Resync(ops, i),
                             NoErr))
    ELSE LET failed == C.events \o <<Executed(ops[i], "DiskLabelCommitError"), TornDown>>
         IN  IF fails[i] = 1
             THEN Execute(ops, i + 1, fails,
                          Commit(Append(failed, Executed(ops[i], NoErr)) \o Resync(ops, i),
                                 NoErr))
             ELSE Commit(Append(failed, Executed(ops[i], "DiskLabelCommitError")),
                         "DiskLabelCommitError")

\* the loop of lines 428-444 whatever dryRun is
RunLoopRegardless(ops, dryRun, fails, C) == Execute(ops, 1, fails, C)

\* processOperations, lines 428-444: with dryRun the loop only logs
RunLoop(ops, dryRun, fails, C) ==
    IF dryRun THEN C ELSE Execute(ops, 1, fails, C)

\* processOperations had its loop gone over the log as pruning left it
ProcessOperationsUnsorted(dryRun, fails) ==
    IF ProcessResult.err # NoErr THEN Commit(<<PruneCalled>>, ProcessResult.err)
    ELSE RunLoop(PruneOperations(CreateExtended(operations, devices, 1)).ops,
                 dryRun, fails, Commit(<<PruneCalled, SortCalled>>, NoErr))

\* tree.processOperations(dryRun): the calls it makes and how it ends, the
\* executes failing as fails says
ProcessOperations(dryRun, fails) ==
    IF ProcessResult.err # NoErr THEN Commit(<<PruneCalled>>, ProcessResult.err)
    ELSE RunLoop(ProcessResult.ops, dryRun, fails,
                 Commit(<<PruneCalled, SortCalled>>, NoErr))

\* tree.processOperations(dryRun=False)
CommitResult(fails) == ProcessOperations(FALSE, fails)

\* tree.processOperations(dryRun=True), with executes that would not fail
DryRunResult == ProcessOperations(TRUE, [i \in 1..Len(ProcessResult.ops) |-> 0])

\* tree.processOperations(dryRun=True): with dryRun nothing is executed
ProcessStep ==
    /\ operations # <<>>
    /\ operations' = ProcessResult.ops
    /\ last' = [call |-> "process", res |-> DryRunResult.err,
                events |-> DryRunResult.events]
    /\ UNCHANGED <<world, made, devices, kids, parted, format, original>>

NextOrder ==
    \/ RegisterStep
    \/ ProcessStep

\* register and dry runs of processOperations, on a populated tree
SpecOrder == InitOrder /\ [][NextOrder]_vars

\* the tree as discovery leaves it, in the runs that look at the comparator
InitCompare ==
    /\ world \in CompareWorlds
    /\ devices = Worlds[world].found
    /\ made = {devices[i] : i \in 1..Len(devices)}
    /\ operations = <<>>
    /\ kids = KidsAtConstruction(Devs, made)
    /\ parted = {d \in Devs : HasDisk(d)}
    /\ format = Worlds[world].fmt
    /\ original = Worlds[world].fmt
    /\ last = [call |-> "init", res |-> NoErr]

\* register and dry runs of processOperations, on the operations of one path
\* and on resizes
SpecCompare == InitCompare /\ [][NextOrder]_vars

\* the tree as discovery leaves it, in the runs that add an extended partition
InitExtended ==
    /\ world \in ExtendedWorlds
    /\ devices = Worlds[world].found
    /\ made = {devices[i] : i \in 1..Len(devices)}
    /\ operations = <<>>
    /\ kids = KidsAtConstruction(Devs, made)
    /\ parted = {d \in Devs : HasDisk(d)}
    /\ format = Worlds[world].fmt
    /\ original = Worlds[world].fmt
    /\ last = [call |-> "init", res |-> NoErr]

\* register and dry runs of processOperations, on a disk that gets an
\* extended partition
SpecExtended == InitExtended /\ [][NextOrder]_vars

\* the tree as discovery leaves it, in the runs that commit
InitCommit ==
    /\ world \in CommitWorlds
    /\ devices = Worlds[world].found
    /\ made = {devices[i] : i \in 1..Len(devices)}
    /\ operations = <<>>
    /\ kids = KidsAtConstruction(Devs, made)
    /\ parted = {d \in Devs : HasDisk(d)}
    /\ format = Worlds[world].fmt
    /\ original = Worlds[world].fmt
    /\ last = [call |-> "init", res |-> NoErr]

Committed == last.call = "commit"

CommitStep ==
    /\ ~Committed
    /\ operations # <<>>
    /\ \E fails \in [1..Len(ProcessResult.ops) -> Failing] :
           /\ operations' = ProcessResult.ops
           /\ last' = [call |-> "commit", res |-> CommitResult(fails).err,
                       events |-> CommitResult(fails).events]
    /\ UNCHANGED <<world, made, devices, kids, parted, format, original>>

\* operations are registered until the commit
RegisterUncommittedStep == ~Committed /\ RegisterStep

NextCommit ==
    \/ RegisterUncommittedStep
    \/ CommitStep

\* register calls and then one processOperations(dryRun=False)
SpecCommit == InitCommit /\ [][NextCommit]_vars

\* tree.processOperations(dryRun=False) once more, after a commit that ended
\* well and left no extended partition to be created: the log is what that
\* commit left in self.operations, and lines 408-444 run over it again.
\* last keeps the operations each of the two commits executed without error.
RecommitStep ==
    /\ Committed
    /\ last.res = NoErr
    /\ \A i \in 1..Len(devices) : PartType(devices[i]) = "extended" => Exists(devices[i])
    /\ \E fails \in [1..Len(ProcessResult.ops) -> Failing] :
           LET done(E) == SelectSeq(E, LAMBDA e : e.ev = "execute" /\ e.res = NoErr)
           IN  /\ operations' = ProcessResult.ops
               /\ last' = [call |-> "recommit", res |-> CommitResult(fails).err,
                           executed |-> [k \in 1..Len(done(CommitResult(fails).events)) |->
                                            done(CommitResult(fails).events)[k].op],
                           earlier |-> [k \in 1..Len(done(last.events)) |->
                                           done(last.events)[k].op]]
    /\ UNCHANGED <<world, made, devices, kids, parted, format, original>>

\* register calls, a processOperations(dryRun=False) and then one more
SpecRecommit ==
    InitCommit /\ [][(last.call # "recommit" /\ NextCommit) \/ RecommitStep]_vars

\* ------------------------------------------------- teardownAll, setupAll
\* how Device.teardown and Device.setup end: well, with the error of the
\* device layer, or with the error of the tree
BulkOutcomes == {NoErr, "DeviceError", "DeviceTreeError"}

Visited(method, d, res) == [ev |-> method, device |-> d, res |-> res]
LoggedFailure(d) == [ev |-> "log", device |-> d, res |-> NoErr]

\* the except clause of lines 1096 and 1104
Caught(e) == e = "DeviceTreeError"

\* teardownAll and setupAll, lines 1093-1097 and 1101-1105: method is called
\* on the leaves in turn; an exception the except clause names is logged,
\* any other ends the call
RECURSIVE BulkCall(_, _, _, _, _)
BulkCall(leaves, i, method, outcome, C) ==
    IF i > Len(leaves) THEN C
    ELSE LET res == outcome[leaves[i]]
             called == Append(C.events, Visited(method, leaves[i], res))
         IN  IF res = NoErr THEN BulkCall(leaves, i + 1, method, outcome, Commit(called, NoErr))
             ELSE IF Caught(res)
                  THEN BulkCall(leaves, i + 1, method, outcome,
                                Commit(Append(called, LoggedFailure(leaves[i])), NoErr))
             ELSE Commit(called, res)

\* DeviceTree.teardownAll
TeardownAll(S, outcome) == BulkCall(Leaves(S), 1, "teardown", outcome, Commit(<<>>, NoErr))

\* DeviceTree.setupAll
SetupAll(S, outcome) == BulkCall(Leaves(S), 1, "setup", outcome, Commit(<<>>, NoErr))

\* the tree as discovery leaves it, in the runs that set up and tear down
InitBulk ==
    /\ world \in BulkWorlds
    /\ devices = Worlds[world].found
    /\ made = {devices[i] : i \in 1..Len(devices)}
    /\ operations = <<>>
    /\ kids = KidsAtConstruction(Devs, made)
    /\ parted = {d \in Devs : HasDisk(d)}
    /\ format = Worlds[world].fmt
    /\ original = Worlds[world].fmt
    /\ last = [call |-> "init", res |-> NoErr]

TeardownAllStep ==
    /\ \E outcome \in [{devices[i] : i \in 1..Len(devices)} -> BulkOutcomes] :
           LET R == TeardownAll(TreeState(devices, operations, kids, parted, format), outcome)
           IN  last' = [call |-> "teardownAll", res |-> R.err, events |-> R.events]
    /\ UNCHANGED <<world, made, devices, operations, kids, parted, format, original>>

SetupAllStep ==
    /\ \E outcome \in [{devices[i] : i \in 1..Len(devices)} -> BulkOutcomes] :
           LET R == SetupAll(TreeState(devices, operations, kids, parted, format), outcome)
           IN  last' = [call |-> "setupAll", res |-> R.err, events |-> R.events]
    /\ UNCHANGED <<world, made, devices, operations, kids, parted, format, original>>

NextBulk ==
    \/ RegisterStep
    \/ TeardownAllStep
    \/ SetupAllStep

\* register calls, teardownAll and setupAll on a populated tree
SpecBulk == InitBulk /\ [][NextBulk]_vars

\* -------------------------------------------------------------- addDevice
\* addDevice(info) for the udev record of a device that discovery found, lines
\* 834-863: getDeviceByName finds the device of that name in the tree, so none
\* is built; handleFormat (865-916) leaves a format with a type alone, reads
\* the partition table of an unpartitioned disk again (1014-1052, nothing to
\* initialize) and gives a device without format the one udev reports; line
\* 863 then takes the format of the device for its originalFormat.  S.dev is
\* the device found, S.format and S.original what the call leaves.
AddDeviceInfo(d) ==
    LET dev == devices[CHOOSE i \in 1..Len(devices) :
                   /\ Path(devices[i]) = Path(d)
                   /\ \A j \in 1..(i - 1) : Path(devices[j]) # Path(d)]
        onDisk == Worlds[world].fmt[dev]
        handled == IF format[dev].type # "none" THEN format
                   ELSE [format EXCEPT ![dev] = onDisk]
    IN  [dev |-> dev, format |-> handled,
         original |-> [original EXCEPT ![dev] = handled[dev]]]

\* tree.addDevice(info), or a second populate() that comes to info: udev
\* reports what discovery found, and a disk without any format is left to
\* the disklabel handler
ScanStep ==
    \E d \in Devs :
        /\ Exists(d)
        /\ \E i \in 1..Len(devices) : Path(devices[i]) = Path(d)
        /\ ~(Cls(d) = "Disk" /\ Worlds[world].fmt[d].type = "none")
        /\ format' = AddDeviceInfo(d).format
        /\ original' = AddDeviceInfo(d).original
        /\ last' = [call |-> "addDevice", res |-> NoErr]
        /\ UNCHANGED <<world, made, devices, operations, kids, parted>>

\* -------------------------------------------------- handleDiskLabelFormat
\* handleDiskLabelFormat(info, device), lines 951-1052, for a partitionable
\* disk d that udev reports without a format and that is not partitioned yet.
\* policy holds the tree's reinitializeDisks and zeroMbr and whether
\* clearPartDisks is empty, names d or names other disks only; protected says
\* that /sys holds a partition of d named in protectedDevNames; readable says
\* that parted accepts the table on d; answer is what the question window
\* returns.  S.tree is the tree the call leaves, S.fresh whether d came to a
\* disklabel built with exists=False.  The two addOperation calls of lines
\* 1038-1039 are for format operations: addOperation tests that d is in the
\* tree (154-156) and appends them (175), a disklabel having no mountpoint.
HandleDiskLabelFormat(d, policy, protected, readable, answer) ==
    LET S == TreeState(devices, operations, kids, parted, format)
        initlabel == /\ policy.clearPartDisks # "others"
                     /\ policy.reinitializeDisks
                     /\ ~protected
        invalid == ~initlabel /\ ~readable
        initcb == policy.zeroMbr \/ answer
        destroy == NewOperation(FreshId, "destroy", "format", d, format)
        create == NewOperation(CHOOSE i \in 1..(Len(operations) + 2) :
                                   /\ i # FreshId
                                   /\ \A j \in 1..Len(operations) : operations[j].id # i,
                               "create", "format", d, [format EXCEPT ![d] = NoFormat])
    IN  IF initlabel \/ (invalid /\ initcb)
        THEN [tree |-> IF ~Contains(devices, d) THEN Raise(S, "DeviceTreeError")
                       ELSE [S EXCEPT !.format[d] = DiskLabel,
                                      !.operations = @ \o <<destroy, create>>],
              fresh |-> TRUE]
        ELSE IF invalid
             THEN [tree |-> RemoveDevice(S, d, FALSE, TRUE, TRUE), fresh |-> FALSE]
        ELSE [tree |-> [S EXCEPT !.format[d] = DiskLabel], fresh |-> FALSE]

\* discovery comes to a disk of the tree that has no format and no partition
\* in the tree yet; last keeps what the handler was given and what it did
LabelStep ==
    \E d \in Devs :
        /\ Cls(d) = "Disk"
        /\ Contains(devices, d)
        /\ IsLeaf(kids, d)
        /\ format[d].type = "none"
        /\ Len(operations) < Cap
        /\ \E policy \in [reinitializeDisks : BOOLEAN, zeroMbr : BOOLEAN,
                           clearPartDisks : {"empty", "named", "others"}] :
             \E protected, readable, answer \in BOOLEAN :
                 LET S == HandleDiskLabelFormat(d, policy, protected, readable, answer)
                 IN  /\ devices' = S.tree.devices
                     /\ operations' = S.tree.operations
                     /\ kids' = S.tree.kids
                     /\ parted' = S.tree.parted
                     /\ format' = S.tree.format
                     /\ last' = [call |-> "handleDiskLabelFormat", res |-> S.tree.err,
                                 device |-> d, protected |-> protected,
                                 readable |-> readable, policy |-> policy,
                                 answer |-> answer, fresh |-> S.fresh,
                                 registered |-> SubSeq(S.tree.operations,
                                                       Len(operations) + 1,
                                                       Len(S.tree.operations))]
        /\ UNCHANGED <<world, made, original>>

\* register, cancel and what discovery calls for the devices it comes to, on
\* a populated tree
SpecScan ==
    InitPopulated /\ [][RegisterStep \/ CancelStep \/ ScanStep \/ LabelStep]_vars

\* ------------------------------------------------------------ properties
\* The exceptions of the tree under the names the specification gives them.
\* _addDevice, _removeDevice and the devices listing raise ValueError or
\* DeviceTreeError; addOperation raises DeviceTreeError itself.
TreeInvariantError == {"ValueError", "DeviceTreeError"}
OperationError == {"DeviceTreeError"}

InGraph(d) == Contains(devices, d)

\* the tree between two calls
Tree == TreeState(devices, operations, kids, parted, format)

\* C1: after any sequence of add, non-forced remove, register and cancel
\* calls, failed ones included, every device in the graph has every one of
\* its parents in the graph.
C1_ParentsInGraph ==
    \A i \in 1..Len(devices) : \A p \in Parents(devices[i]) : InGraph(p)

AddRefusable(d) ==
    \/ \E i \in 1..Len(devices) :
           Path(devices[i]) = Path(d) /\ Cls(devices[i]) # "NoDevice"
    \/ \E p \in Parents(d) : ~InGraph(p)

\* C3: add(device) fails with TreeInvariantError and leaves the graph as it
\* was when a non-placeholder device of the same path is in the graph or a
\* parent of the device is not; in every other case it appends the device.
C3_AddContract ==
    \A d \in Devs :
        Buildable(d) =>
            LET R == AddResult(d)
            IN  IF AddRefusable(d)
                THEN R.err \in TreeInvariantError /\ R.devices = devices
                ELSE R.err = NoErr /\ R.devices = Append(devices, d)

\* C4: remove(device, force=false) fails with TreeInvariantError and leaves
\* the graph as it was when the device is not in the graph or some device of
\* the graph has it as a parent; remove(device, force=true) of a device of
\* the graph that is some device's parent succeeds, takes it out and lowers
\* the child count of each of its parents by exactly one.  The parted
\* library is taken to do what it is asked.
C4_RemoveContract ==
    \A d \in made :
        LET R == RemoveResult(d, FALSE, TRUE)
            F == RemoveResult(d, TRUE, TRUE)
        IN  /\ (~InGraph(d) \/ GetChildren(devices, d) # {}) =>
                   R.err \in TreeInvariantError /\ R.devices = devices
            /\ (InGraph(d) /\ GetChildren(devices, d) # {}) =>
                   /\ F.err = NoErr
                   /\ ~Contains(F.devices, d)
                   /\ F.kids = RemoveChild(kids, Parents(d))

\* every device that was built is in the graph or is the device of a logged
\* operation: no child is counted that the tree never heard of
AllBuiltKnown ==
    \A d \in made : InGraph(d) \/ \E i \in 1..Len(operations) : operations[i].device = d

\* C5: in every state reached by register and cancel calls a device of the
\* graph is reported as a leaf (child count zero) exactly when no device of
\* the graph lists it as a parent.  Stated for the states where every built
\* device is known to the tree, a weaker statement that the tree breaks too.
C5_LeafIffChildless ==
    AllBuiltKnown =>
        \A i \in 1..Len(devices) :
            IsLeaf(kids, devices[i]) <=> GetChildren(devices, devices[i]) = {}

\* the calls a caller can make: the operation's device was built before the
\* operation, a resize or migrate only for a filesystem
CallsOfKind(k) ==
    UNION {{[type |-> k[1], obj |-> k[2], dev |-> d, fmt |-> fmt, libOk |-> libOk] :
                fmt \in FmtsFor(k), libOk \in LibAnswers(d)} :
           d \in {e \in Devs : Buildable(e) /\ Constructible(k[1], k[2], e)}}

RegisterCalls == UNION {CallsOfKind(k) : k \in Kinds}

\* the operation such a call registers, and what the call does
OperationOf(c) == Built(FreshId, c.type, c.obj, c.dev)
Registered(c) == RegisterResult(c.type, c.obj, c.dev, c.fmt, c.libOk)

\* C6: register(op) fails with OperationError whenever op is a
\* device-destroy, format-destroy, device-resize, format-resize or
\* format-create and its device is not in the graph; the log is then as it
\* was.
C6_NeedsTarget ==
    \A c \in RegisterCalls :
        (/\ <<c.type, c.obj>> \in {<<"destroy", "device">>, <<"destroy", "format">>,
                                   <<"resize", "device">>, <<"resize", "format">>,
                                   <<"create", "format">>}
         /\ ~InGraph(c.dev)) =>
            LET R == Registered(c)
            IN  /\ R.err \in OperationError
                /\ R.operations = operations

\* a register was turned away where only the test of the target can have
\* done it: the graph is empty and no device has a parent to miss
C6_TargetMissed ==
    /\ last.call = "register"
    /\ last.res \in OperationError
    /\ devices = <<>>
    /\ operations = <<>>
    /\ \A d \in Devs : Parents(d) = {}

\* C7: a register(op) that succeeds has applied the structural effect and
\* put op last in the log: the device of a device-create is in the graph,
\* the device of a device-destroy is not, and the operations that were in
\* the log are before op in the order they had.
C7_EffectThenAppend ==
    \A c \in RegisterCalls :
        LET R == Registered(c)
        IN  R.err = NoErr =>
                /\ R.operations = Append(operations, OperationOf(c))
                /\ <<c.type, c.obj>> = <<"create", "device">> => Contains(R.devices, c.dev)
                /\ <<c.type, c.obj>> = <<"destroy", "device">> => ~Contains(R.devices, c.dev)

\* a device-destroy was registered behind two operations, and its device is
\* gone
C7_DestroyAppended ==
    /\ last.call = "register"
    /\ last.res = NoErr
    /\ Len(operations) >= 3
    /\ operations[Len(operations)].type = "destroy"
    /\ ~InGraph(operations[Len(operations)].device)

\* the devices of a list that have the path of d
SamePath(ds, d) == {i \in 1..Len(ds) : Path(ds[i]) = Path(d)}

\* C8: a device-create registered while the graph holds its device or
\* another device of its path takes the stale device out first: the
\* register never trips over the path in _addDevice, and when it succeeds
\* the graph holds the operation's device and no other device of that path.
C8_StaleRemovedFirst ==
    \A c \in RegisterCalls :
        (<<c.type, c.obj>> = <<"create", "device">> /\ SamePath(devices, c.dev) # {}) =>
            LET R == Registered(c)
            IN  /\ R.err # "NameError"
                /\ R.err = NoErr =>
                       \A i \in 1..Len(R.devices) :
                           Path(R.devices[i]) = Path(c.dev) <=>
                               i = Len(R.devices) /\ R.devices[i] = c.dev

\* the graph holds sda1, and a create of another device of its path can be
\* registered and succeeds
C8_StaleReplaced ==
    /\ InGraph("sda1")
    /\ Len(operations) < Cap
    /\ Buildable("new1")
    /\ RegisterResult("create", "device", "new1", NoFormat, TRUE).err = NoErr
    /\ ~Contains(RegisterResult("create", "device", "new1", NoFormat, TRUE).devices, "sda1")

\* the leaves of the graph, other than d, whose format has this mountpoint
OtherLeavesMounting(d, mountpoint) ==
    {e \in Devs \ {d} :
        /\ InGraph(e)
        /\ GetChildren(devices, e) = {}
        /\ IsLeaf(kids, e)
        /\ format[e].mountpoint = mountpoint}

\* C9: register of a format-create whose filesystem has the mountpoint of
\* the format of another leaf device of the graph fails with OperationError,
\* and the log is as it was.
C9_MountpointConflict ==
    \A c \in RegisterCalls :
        (/\ <<c.type, c.obj>> = <<"create", "format">>
         /\ InGraph(c.dev)
         /\ IsFilesystem(c.fmt)
         /\ c.fmt.mountpoint # ""
         /\ OtherLeavesMounting(c.dev, c.fmt.mountpoint) # {}) =>
            LET R == Registered(c)
            IN  /\ R.err \in OperationError
                /\ R.operations = operations

\* the log without its i-th operation
WithoutIth(ops, i) == SubSeq(ops, 1, i - 1) \o SubSeq(ops, i + 1, Len(ops))

\* C10: a cancel(op) of a logged operation that returns has undone the
\* structural effect and taken op out of the log: the device of a
\* device-create is out of the graph, the device of a device-destroy is back
\* in it, a format create, resize or migrate is reverted; op is no longer in
\* the log and the other operations keep their order.
C10_CancelUndoes ==
    \A i \in 1..Len(operations) : \A libOk \in LibAnswers(operations[i].device) :
        LET op == operations[i]
            R == CancelResult(i, libOk)
        IN  R.err = NoErr =>
                /\ R.operations = WithoutIth(operations, i)
                /\ ~Contains(R.operations, op)
                /\ (IsCreate(op) /\ IsDevice(op)) => ~Contains(R.devices, op.device)
                /\ (IsDestroy(op) /\ IsDevice(op)) => Contains(R.devices, op.device)
                /\ (IsCreate(op) /\ IsFormat(op)) => R.format[op.device] = op.origFormat
                /\ (IsResize(op) /\ IsFormat(op)) =>
                       R.format[op.device].targetSize = op.origSize
                /\ (IsMigrate(op) /\ IsFormat(op)) => ~R.format[op.device].migrate

\* a migration was canceled and another operation stays in the log
C10_MigrateCanceled ==
    /\ last.call = "cancel"
    /\ last.res = NoErr
    /\ Len(operations) >= 1
    /\ \A i \in 1..Len(operations) : ~IsMigrate(operations[i])
    /\ \E d \in Devs : IsFilesystem(format[d]) /\ ~format[d].migrate
    /\ world = "resize"

\* C11: every logged operation can be canceled: in every state reached by
\* register and cancel calls on a populated tree, cancel(op) of any
\* operation of the log returns normally (the parted library doing what it
\* is asked).
C11_CancelSucceeds ==
    \A i \in 1..Len(operations) : CancelResult(i, TRUE).err = NoErr

\* the cancels a caller can make of operations that were never registered
UnloggedCalls == RegisterCalls

\* C12: cancel(op) of an operation that is not in the log is an error:
\* removeOperation raises, whatever the operation and the state of the tree.
C12_UnloggedIsError ==
    \A c \in UnloggedCalls :
        CancelUnloggedResult(c.type, c.obj, c.dev, c.fmt, c.libOk).err # NoErr

\* an operation that was never registered was canceled with nothing in the
\* way of its structural effect, and list.remove raised
C12_UnloggedRefused ==
    /\ last.call = "cancelUnlogged"
    /\ last.res = "ValueError"
    /\ Len(operations) >= 1
    /\ devices # <<>>
\* the device-creates and device-destroys of d in the log
Creates(d) == FindOperations(operations, d, "create", "device")
Destroys(d) == FindOperations(operations, d, "destroy", "device")

\* d did not pre-exist: its first device-lifecycle operation is a create, and
\* a device-destroy is logged after it
NotPreexisting(d) ==
    /\ Creates(d) # <<>>
    /\ Destroys(d) # <<>>
    /\ IndexOf(operations, Creates(d)[1]) < IndexOf(operations, Destroys(d)[1])

\* the places of the log from the first create of d through its last destroy
Lifetime(d) ==
    IndexOf(operations, Creates(d)[1]) .. IndexOf(operations, Last(Destroys(d)))

\* C13: for a device that did not pre-exist and has a device-destroy logged
\* after its first create, pruning ends without an exception and takes out
\* every operation on the device from the first create through the last
\* destroy; a create directly followed by a destroy leaves nothing on it.
C13_CollapseNotPreexisting ==
    \A d \in Devs :
        NotPreexisting(d) =>
            LET P == PruneOperations(operations)
            IN  /\ P.err = NoErr
                /\ \A i \in Lifetime(d) :
                       operations[i].device = d => ~Contains(P.ops, operations[i])

\* a device created, resized and destroyed, with other work in the log:
\* pruning leaves nothing that touches it
C13_Collapsed ==
    \E d \in Devs :
        /\ NotPreexisting(d)
        /\ \E i \in Lifetime(d) : operations[i].device = d /\ IsResize(operations[i])
        /\ Last(operations).device = d /\ IsDestroy(Last(operations))
        /\ FindOperations(PruneOperations(operations).ops, d, NoFilter, NoFilter) = <<>>

\* the families pruned down to their last operation (lines 576-595, 712-753)
Families == {<<"resize", "device">>, <<"resize", "format">>, <<"migrate", "format">>}

\* the operations of family f on device d in a log
Family(ops, d, f) == FindOperations(ops, d, f[1], f[2])

\* pruning leaves of family f on d the operation registered last, and only it
LastRemains(d, f) ==
    LET P == PruneOperations(operations)
    IN  /\ P.err = NoErr
        /\ Family(P.ops, d, f) = <<Last(Family(operations, d, f))>>

\* the log holds a create or a destroy of d or of its format
HasLifecycle(d) ==
    \E i \in 1..Len(operations) :
        operations[i].device = d /\ (IsCreate(operations[i]) \/ IsDestroy(operations[i]))

\* C14 as stated: whenever the log holds more than one operation of a resize
\* or migrate family for a device, pruning leaves exactly the one registered
\* last.
C14_LastOfFamilyRemains ==
    \A d \in Devs : \A f \in Families :
        Len(Family(operations, d, f)) > 1 => LastRemains(d, f)

\* C14, amended: whenever the log holds more than one operation of a resize
\* or migrate family for a device and no create or destroy of that device or
\* of its format, pruning leaves of the family exactly the one registered last.
C14_LastRemainsWithoutLifecycle ==
    \A d \in Devs : \A f \in Families :
        Len(Family(operations, d, f)) > 1 /\ ~HasLifecycle(d) => LastRemains(d, f)

\* three resizes of one family and no create or destroy: the last is kept
C14_ThirdResizeKept ==
    \E d \in Devs : \E f \in Families :
        /\ Len(Family(operations, d, f)) = 3
        /\ Len(operations) > 3
        /\ ~HasLifecycle(d)
        /\ LastRemains(d, f)

\* C15: pruning is idempotent: on every log that register and cancel calls
\* build, pruning ends without an exception, and pruning the pruned log again
\* ends without one too, removes nothing and yields the same log.
C15_PruneIdempotent ==
    LET P == PruneOperations(operations)
        Q == PruneOperations(P.ops)
    IN  P.err = NoErr /\ Q.err = NoErr /\ Q.ops = P.ops

\* the place of an operation's type in the order of execution
TypeRank(op) ==
    IF IsDestroy(op) THEN 1 ELSE IF IsResize(op) THEN 2 ELSE IF IsCreate(op) THEN 3 ELSE 4

\* a sequence of operations has its destroys first, then its resizes, then
\* its creates, then its migrates
ByType(ops) ==
    \A i, j \in 1..Len(ops) : i < j => TypeRank(ops[i]) <= TypeRank(ops[j])

\* C16: in the sequence processOperations makes of the log by pruning and
\* sorting it, every destroy comes before every resize, every resize before
\* every create and every create before every migrate.
C16_OrderedByType ==
    LET R == ProcessResult
    IN  R.err = NoErr => ByType(R.ops)

\* a log registered against that order, with three types left after pruning
C16_TypesReordered ==
    LET R == ProcessResult
    IN  /\ ~ByType(operations)
        /\ R.err = NoErr
        /\ Cardinality({TypeRank(R.ops[i]) : i \in 1..Len(R.ops)}) >= 3
        /\ ByType(R.ops)

\* operations of one type on devices: x is on a device that depends on the
\* device of y
DependentPair(x, y, type) ==
    /\ x.type = type /\ y.type = type
    /\ IsDevice(x) /\ IsDevice(y)
    /\ DependsOn(x.device, y.device)

\* in ops a device is created after every device it depends on, and
\* destroyed before it
ByDependency(ops) ==
    \A i, j \in 1..Len(ops) :
        /\ DependentPair(ops[i], ops[j], "create") => j < i
        /\ DependentPair(ops[i], ops[j], "destroy") => i < j

\* C17: if device A depends on device B, then in the sequence
\* processOperations makes of the log the create-device of B comes before the
\* create-device of A, and the destroy-device of A before the destroy-device
\* of B, whenever both are logged.
C17_OrderedByDependency ==
    LET R == ProcessResult
    IN  R.err = NoErr => ByDependency(R.ops)

\* operations of one type on two partitions of one disk
PartitionPair(x, y, type) ==
    /\ x.type = type /\ y.type = type
    /\ IsDevice(x) /\ IsDevice(y)
    /\ IsPartition(x.device) /\ IsPartition(y.device)
    /\ Disk(x.device) = Disk(y.device)

Independent(x, y) == ~DependsOn(x.device, y.device) /\ ~DependsOn(y.device, x.device)

\* in ops the partitions of a disk are destroyed from the highest number
\* down, those that depend on one another left aside, and created from the
\* lowest number up
ByNumber(ops) ==
    \A i, j \in 1..Len(ops) :
        /\ PartitionPair(ops[i], ops[j], "destroy") /\ Independent(ops[i], ops[j])
           /\ PartitionNumber[ops[i].device] > PartitionNumber[ops[j].device] => i < j
        /\ PartitionPair(ops[i], ops[j], "create")
           /\ PartitionNumber[ops[i].device] < PartitionNumber[ops[j].device] => i < j

PrunedLog == PruneOperations(CreateExtended(operations, devices, 1))

\* cmpOperations on the operations of a log: antisymmetric, and transitive
\* where it answers "before"
StrictWeakOrder(fm, ops) ==
    LET S == {ops[i] : i \in 1..Len(ops)}
    IN  /\ \A a, b \in S : CmpOperations(fm, a, b) = -CmpOperations(fm, b, a)
        /\ \A a, b, c \in S :
               CmpOperations(fm, a, b) < 0 /\ CmpOperations(fm, b, c) < 0
                   => CmpOperations(fm, a, c) < 0

\* C19: on every log that pruning produces the comparator is a strict weak
\* ordering: cmp(a, b) = -cmp(b, a) for all a and b, and cmp(a, b) < 0 with
\* cmp(b, c) < 0 implies cmp(a, c) < 0.
C19_StrictWeakOrder ==
    PrunedLog.err = NoErr => StrictWeakOrder(format, PrunedLog.ops)

\* the k-th call of the commit is an execute that raised DiskLabelCommitError
FailedAt(k) ==
    last.events[k].ev = "execute" /\ last.events[k].res = "DiskLabelCommitError"

\* the k-th call of the commit is the second execute of its operation
RetryAt(k) == k > 1 /\ last.events[k - 1] = TornDown

\* the operations the commit has called execute on, in the order of the calls
RECURSIVE Attempted(_, _)
Attempted(evs, k) ==
    IF k > Len(evs) THEN <<>>
    ELSE IF evs[k].ev = "execute" /\ (k = 1 \/ evs[k - 1] # TornDown)
         THEN <<evs[k].op>> \o Attempted(evs, k + 1)
    ELSE Attempted(evs, k + 1)

Outward == {"execute", "teardownAll", "udev_settle", "updateName"}

\* C21: processOperations(dryRun=True) executes no operation, tears nothing
\* down and takes no partition name from the partition table again, whatever
\* the log and the tree are.
C21_DryRunTouchesNothing ==
    last.call = "process" =>
        \A k \in 1..Len(last.events) : last.events[k].ev \notin Outward

\* a dry run that pruned and sorted a log of three operations, with an
\* existing partition in the tree
C21_DryRunDone ==
    /\ last.call = "process"
    /\ last.events = <<PruneCalled, SortCalled>>
    /\ Len(operations) >= 3
    /\ \E i \in 1..Len(devices) : IsPartition(devices[i]) /\ Exists(devices[i])

\* the devices a bulk call has called its method on, in order
RECURSIVE Called(_, _)
Called(evs, k) ==
    IF k > Len(evs) THEN <<>>
    ELSE IF evs[k].ev \in {"teardown", "setup"} THEN <<evs[k].device>> \o Called(evs, k + 1)
    ELSE Called(evs, k + 1)

\* C22: teardownAll and setupAll call the method on every leaf: a failure
\* with the error of the device layer is logged and passed over, the bulk
\* call does not raise and the leaves that remain are still processed.
C22_BulkSkipsFailures ==
    /\ last.call \in {"teardownAll", "setupAll"}
    /\ \A k \in 1..Len(last.events) : last.events[k].res \in {NoErr, "DeviceError"}
    => /\ last.res = NoErr
       /\ Called(last.events, 1) = Leaves(Tree)
       /\ \A k \in 1..Len(last.events) :
              last.events[k].res = "DeviceError" =>
                  /\ k < Len(last.events)
                  /\ last.events[k + 1] = LoggedFailure(last.events[k].device)

\* d pre-existed and was destroyed more than once: a device-destroy comes
\* before any device-create of it, and there is a second device-destroy
DestroyedAgain(d) ==
    /\ Len(Destroys(d)) > 1
    /\ Creates(d) # <<>> =>
           IndexOf(operations, Destroys(d)[1]) < IndexOf(operations, Creates(d)[1])

\* pruning keeps the first device-destroy of d and takes out every operation
\* on d after it up to the last device-destroy, that one included
CollapsedToFirstDestroy(d) ==
    LET P == PruneOperations(operations)
        first == IndexOf(operations, Destroys(d)[1])
        last_ == IndexOf(operations, Last(Destroys(d)))
    IN  /\ P.err = NoErr
        /\ Contains(P.ops, operations[first])
        /\ \A i \in (first + 1)..last_ :
               operations[i].device = d => ~Contains(P.ops, operations[i])

\* a run of pruning, or a part of one, keeps every operation on d that comes
\* after its last device-destroy
KeptAfterLastDestroy(d, P) ==
    \A i \in (IndexOf(operations, Last(Destroys(d))) + 1)..Len(operations) :
        operations[i].device = d => Contains(P.ops, operations[i])

\* the log after the pass over the device-destroys, the first of pruning
DestroyPass == PrunePass(PruneState(operations), "destroy", "device")

\* C23 as stated: for a pre-existing device with more than one device-destroy
\* pruning keeps the first device-destroy, removes every operation on the
\* device after it up to and including the last device-destroy, and keeps
\* the operations on the device that come after the last device-destroy.
C23_CollapseKeepsRest ==
    \A d \in Devs :
        DestroyedAgain(d) =>
            /\ CollapsedToFirstDestroy(d)
            /\ KeptAfterLastDestroy(d, PruneOperations(operations))

\* C23, amended: for such a device pruning keeps the first device-destroy and
\* removes every operation on the device after it up to and including the
\* last device-destroy, and its pass over the device-destroys keeps the
\* operations on the device that come after the last device-destroy.
C23_CollapseLeavesRest ==
    \A d \in Devs :
        DestroyedAgain(d) =>
            /\ CollapsedToFirstDestroy(d)
            /\ KeptAfterLastDestroy(d, DestroyPass)

\* destroyed, created, destroyed and created again: the first destroy and
\* the last create are what pruning leaves
C23_SecondDestroyCollapsed ==
    \E d \in Devs :
        /\ DestroyedAgain(d)
        /\ IsCreate(Last(operations)) /\ Last(operations).device = d
        /\ CollapsedToFirstDestroy(d)
        /\ PruneOperations(operations).ops = <<Destroys(d)[1], Last(operations)>>

\* d has exactly one device-destroy and no device-create in the log
DestroyedOnce(d) == Len(Destroys(d)) = 1 /\ Creates(d) = <<>>

\* a resize, or the create of a format
Moot(op) == IsResize(op) \/ (IsCreate(op) /\ IsFormat(op))

\* C24: for a device with exactly one device-destroy and no device-create in
\* the log, pruning removes every resize and every format-create on that
\* device that was registered before the destroy, and keeps the
\* device-destroy.
C24_LoneDestroyPrunes ==
    \A d \in Devs :
        DestroyedOnce(d) =>
            LET P == PruneOperations(operations)
                destroy == IndexOf(operations, Destroys(d)[1])
            IN  /\ P.err = NoErr
                /\ Contains(P.ops, operations[destroy])
                /\ \A i \in 1..(destroy - 1) :
                       operations[i].device = d /\ Moot(operations[i])
                           => ~Contains(P.ops, operations[i])

\* a resize and a format-create, then the destroy of their device: pruning
\* leaves the destroy alone
C24_OnlyDestroyLeft ==
    \E d \in Devs :
        /\ DestroyedOnce(d)
        /\ Len(operations) = 3
        /\ \E i \in 1..2 : IsResize(operations[i])
        /\ \E i \in 1..2 : IsCreate(operations[i]) /\ IsFormat(operations[i])
        /\ PruneOperations(operations).ops = <<Destroys(d)[1]>>

\* C25: pruneOperations ends without raising on every log that register and
\* cancel calls can build: an operation that an earlier step of the same
\* run has removed is skipped, neither looked up nor removed again.
C25_PruneNeverRaises == PruneOperations(operations).err = NoErr

\* the pass over the operations of this type and object, run on the log as
\* it is, comes to an operation that one of its earlier turns took out
SkipsRemoved(type, obj) ==
    LET found == FindOperations(operations, NoFilter, type, obj)
    IN  \E j \in 1..Len(found) :
            ~Contains(PruneVisit(PruneState(operations), SubSeq(found, 1, j - 1),
                                 1, type, obj).ops, found[j])

\* the turn of the first create took out the later one, which the pass then
\* skips, and the run ends without an error
C25_RemovedCreateSkipped ==
    /\ SkipsRemoved("create", "device")
    /\ PruneOperations(operations).err = NoErr

\* in the sorted log the operation at place i comes before that at place j
\* and the comparator says so in both argument orders
PlacedBefore(R, i, j) ==
    /\ i < j
    /\ CmpOperations(format, R[i], R[j]) = -1
    /\ CmpOperations(format, R[j], R[i]) = 1

\* two operations of this type on one device path, the first on the format
\* and the second on the device
FormatAndDevice(a, b, type) ==
    /\ a.type = type /\ b.type = type
    /\ Path(a.device) = Path(b.device)
    /\ IsFormat(a) /\ ~IsFormat(b)

\* C26: for two operations on the same device path, ordering places the
\* destroy-format before the destroy-device and the create-format after the
\* create-device, whichever of the two is the comparator's first argument.
C26_FormatInsideDevice ==
    LET R == ProcessResult.ops
    IN  ProcessResult.err = NoErr =>
            \A i, j \in 1..Len(R) :
                /\ FormatAndDevice(R[i], R[j], "destroy") => PlacedBefore(R, i, j)
                /\ FormatAndDevice(R[i], R[j], "create") => PlacedBefore(R, j, i)

\* the comparator's answer for two operations does not depend on which of
\* them is its first argument
SameEitherWay(a, b) == CmpOperations(format, a, b) = -CmpOperations(format, b, a)

\* C27: for a format-resize and a device-resize on the same device path,
\* ordering places the format-resize before the device-resize when the resize
\* shrinks and after it when the resize grows; for resizes of two devices of
\* which one dependsOn the other, the dependent is resized first when
\* shrinking and last when growing; the result does not depend on which
\* operation is the comparator's first argument.
C27_ResizesByDirection ==
    LET R == ProcessResult.ops
    IN  ProcessResult.err = NoErr =>
            \A i, j \in 1..Len(R) :
                (i # j /\ IsResize(R[i]) /\ IsResize(R[j])) =>
                    /\ SameEitherWay(R[i], R[j])
                    /\ (Path(R[i].device) = Path(R[j].device)
                            /\ IsFormat(R[i]) /\ ~IsFormat(R[j])) =>
                           /\ (~IsGrow(R[i]) /\ ~IsGrow(R[j])) => i < j
                           /\ (IsGrow(R[i]) /\ IsGrow(R[j])) => j < i
                    /\ DependsOn(R[i].device, R[j].device) =>
                           /\ (~IsGrow(R[i]) /\ ~IsGrow(R[j])) => i < j
                           /\ (IsGrow(R[i]) /\ IsGrow(R[j])) => j < i

\* two destroys, a of a partition and b of a device that is neither a
\* partition nor partitioned, with no dependency between their devices
PartitionAndLoose(a, b) ==
    /\ IsDestroy(a) /\ IsDestroy(b)
    /\ IsPartition(a.device)
    /\ ~IsPartition(b.device) /\ ~Partitioned(format, b.device)
    /\ ~DependsOn(a.device, b.device) /\ ~DependsOn(b.device, a.device)

\* C28: for two destroys whose devices have no dependency relation, the
\* destroy of a partition is ordered before the destroy of an unpartitioned
\* device that is not a partition.
C28_PartitionDestroyedFirst ==
    LET R == ProcessResult.ops
    IN  ProcessResult.err = NoErr =>
            \A i, j \in 1..Len(R) : PartitionAndLoose(R[i], R[j]) => i < j

\* the ids of the operations of a log, in its order
Ids(ops) == [i \in 1..Len(ops) |-> ops[i].id]

\* no execute of the commit raised
NoFailure == \A k \in 1..Len(last.events) : ~FailedAt(k)

\* C29: within one commit pruning is over before ordering starts, ordering
\* is over before the first operation is executed, and the operations are
\* executed in the order of the sorted log, every operation of the pruned
\* log when no failure occurs.  Before the commit: what the sort will leave
\* is the pruned log, reordered.
C29_PruneSortExecute ==
    /\ (~Committed /\ PrunedLog.err = NoErr) =>
           /\ Len(ProcessResult.ops) = Len(PrunedLog.ops)
           /\ \A i \in 1..Len(PrunedLog.ops) : Contains(ProcessResult.ops, PrunedLog.ops[i])
    /\ Committed =>
           LET E == last.events
           IN  /\ Len(E) >= 1
               /\ \A k \in 1..Len(E) : E[k] = PruneCalled <=> k = 1
               /\ \A k \in 1..Len(E) : E[k] = SortCalled => k = 2
               /\ \A k \in 1..Len(E) : E[k].ev = "execute" => k > 2 /\ E[2] = SortCalled
               /\ Len(Attempted(E, 1)) <= Len(operations)
               /\ Attempted(E, 1) = SubSeq(Ids(operations), 1, Len(Attempted(E, 1)))
               /\ NoFailure =>
                      /\ last.res = NoErr
                      /\ Attempted(E, 1) = Ids(operations)
                      /\ \A i \in 1..Len(operations) :
                             Cardinality({k \in 1..Len(E) :
                                             E[k] = Executed(operations[i], NoErr)}) = 1

\* a commit without a failure that executed its operations in another order
\* than the one they were registered in
C29_ExecutedAsSorted ==
    /\ Committed /\ NoFailure
    /\ Len(operations) >= 2
    /\ Attempted(last.events, 1) = Ids(operations)
    /\ \E i \in 1..(Len(operations) - 1) : operations[i].id > operations[i + 1].id

\* the partitions of the tree that are extended and do not exist yet
NewExtended ==
    {d \in {devices[i] : i \in 1..Len(devices)} :
        IsPartition(d) /\ PartType(d) = "extended" /\ ~Exists(d)}

\* the log as line 413 leaves it
Appended == CreateExtended(operations, devices, 1)

\* the create-device operations of d in a log
DeviceCreates(ops, d) == FindOperations(ops, d, "create", "device")

\* C30: commit appends a create-device operation for every partition of the
\* graph that is extended and does not exist yet, and leaves the graph as it
\* is; after the pruning of that commit exactly one create-device remains in
\* the log for each such partition, also when commit is called again and
\* again on the same tree.
C30_ExtendedCreatedOnce ==
    [][ProcessStep =>
          /\ devices' = devices /\ kids' = kids /\ parted' = parted
          /\ SubSeq(Appended, 1, Len(operations)) = operations
          /\ Len(Appended) = Len(operations) + Cardinality(NewExtended)
          /\ \A d \in NewExtended :
                 /\ Len(DeviceCreates(Appended, d)) = Len(DeviceCreates(operations, d)) + 1
                 /\ PrunedLog.err = NoErr
                 /\ Len(DeviceCreates(PrunedLog.ops, d)) = 1
                 /\ Len(DeviceCreates(operations', d)) = 1]_vars

\* after one processOperations the log holds the one create-device of a new
\* extended partition, next to another operation; the next call appends a
\* second one, which pruning takes out again
C30_AppendedAgain ==
    /\ last.call = "process"
    /\ Len(operations) >= 2
    /\ \E d \in NewExtended :
           /\ Len(DeviceCreates(operations, d)) = 1
           /\ Len(DeviceCreates(Appended, d)) = 2
           /\ Len(DeviceCreates(PrunedLog.ops, d)) = 1

\* the place in the commit's calls of the next execute after the k-th call,
\* or the place after the last call
RECURSIVE NextExecute(_, _)
NextExecute(E, k) ==
    IF k + 1 > Len(E) \/ E[k + 1].ev = "execute" THEN k + 1
    ELSE NextExecute(E, k + 1)

\* between the k-th call and the next execute the name of d was refreshed and
\* its format pointed at the path of d
Refreshed(E, k, d) ==
    \E j \in (k + 1)..(NextExecute(E, k) - 1) :
        /\ E[j].ev = "updateName"
        /\ E[j].device = d
        /\ E[j].formatDevice = Path(d)

\* C31: after every operation that a commit which is no dry run has executed
\* successfully, every partition of the graph that exists has had its name
\* refreshed and its format's device path set to the partition's path.
C31_ResyncAfterExecute ==
    Committed =>
        LET E == last.events
        IN  \A k \in 1..Len(E) : \A i \in 1..Len(operations) :
                E[k] = Executed(operations[i], NoErr) =>
                    /\ k < Len(E) /\ E[k + 1] = Settled
                    /\ \A n \in 1..Len(devices) :
                           IsPartition(devices[n]) /\ ExistsAfter(operations, i, devices[n])
                               => Refreshed(E, k, devices[n])

\* the create of a new partition was executed, and the partition, now
\* existing, and an older one were refreshed after it
C31_NewPartitionRefreshed ==
    /\ Committed
    /\ \E k \in 1..Len(last.events) : \E i \in 1..Len(operations) :
           /\ last.events[k] = Executed(operations[i], NoErr)
           /\ IsCreate(operations[i]) /\ IsDevice(operations[i])
           /\ IsPartition(operations[i].device) /\ ~Exists(operations[i].device)
           /\ Refreshed(last.events, k, operations[i].device)
           /\ \E d \in Devs : d # operations[i].device /\ Refreshed(last.events, k, d)

\* the same format object: a resize or a migrate changes an attribute of the
\* object and not the object
SameFormat(f, g) == f.type = g.type /\ f.mountpoint = g.mountpoint

\* C32: a device's originalFormat is set once, when its discovery finishes,
\* to the format it has then, and no register, cancel, pruning, commit or
\* repeated populate/addDevice for a record of the same device changes it.
C32_OriginalFormatKept ==
    [][\A d \in Devs : SameFormat(original'[d], original[d])]_vars

\* C33: disklabel handling never reinitializes a disk that holds a protected
\* partition: whatever the reinitialize, clear-partition-disks and zero-MBR
\* policies, the answer to the question and the table being readable or not,
\* the disk gets no freshly initialized disklabel and no destroy-format or
\* create-format is registered for it
C33_ProtectedNeverReinitialized ==
    (last.call = "handleDiskLabelFormat" /\ last.protected)
        => /\ ~last.fresh
           /\ last.registered = <<>>

\* the devices of a list, and how often a device is in it
Members(seq) == {seq[i] : i \in 1..Len(seq)}
Times(seq, d) == Cardinality({i \in 1..Len(seq) : seq[i] = d})

\* the logical partitions of the graph that are on the disk of E
LogicalsWith(E) ==
    {l \in Members(devices) : IsPartition(l) /\ PartType(l) = "logical" /\ Disk(l) = Disk(E)}

\* C34: for an extended partition E of the graph, dependentsOf(E) returns
\* every logical partition on E's disk and every device of the graph that
\* depends, directly or through other devices, on E or on one of those
\* logical partitions; each of them once, and no other device
C34_DependentsOfExtended ==
    \A E \in Members(devices) :
        (IsPartition(E) /\ PartType(E) = "extended")
            => LET R == GetDependentDevices(devices, E)
               IN  /\ Members(R) =
                          LogicalsWith(E) \cup
                          {d \in Members(devices) :
                              \E x \in {E} \cup LogicalsWith(E) : x \in Ancestors(d)}
                   /\ \A d \in Members(R) : Times(R, d) = 1

\* an extended partition, a logical partition of its disk and a device built
\* on the logical partition are in the graph, and dependentsOf(extended)
\* returns the two
C34_DeviceOnLogical ==
    /\ {"sda2", "sda5", "lv5", "sda1"} \subseteq Members(devices)
    /\ operations # <<>>
    /\ GetDependentDevices(devices, "sda2") = <<"sda5", "lv5">>

\* a call left the graph and the log as the tree S held them
Untouched(S, R) ==
    /\ R.devices = S.devices
    /\ R.kids = S.kids
    /\ R.parted = S.parted
    /\ R.operations = S.operations

\* C35: a register call that fails leaves the device graph and the operation
\* log exactly as they were before the call
C35_FailedRegisterChangesNothing ==
    \A k \in Kinds : \A d \in Devs : \A fmt \in FmtsFor(k) : \A libOk \in LibAnswers(d) :
        (Buildable(d) /\ Constructible(k[1], k[2], d))
            => LET R == RegisterResult(k[1], k[2], d, fmt, libOk)
               IN  R.err \in {"ValueError", "DeviceTreeError"} => Untouched(Now(d), R)

\* C36: a cancel call that fails leaves the device graph and the operation
\* log exactly as they were before the call
C36_FailedCancelChangesNothing ==
    /\ \A i \in 1..Len(operations) : \A libOk \in LibAnswers(operations[i].device) :
           LET R == CancelResult(i, libOk)
           IN  R.err \in {"ValueError", "DeviceTreeError", "NameError"}
                   => Untouched(Now(operations[i].device), R)
    /\ \A k \in Kinds : \A d \in Devs : \A fmt \in FmtsFor(k) : \A libOk \in LibAnswers(d) :
           (Buildable(d) /\ Constructible(k[1], k[2], d))
               => LET R == CancelUnloggedResult(k[1], k[2], d, fmt, libOk)
                  IN  R.err \in {"ValueError", "DeviceTreeError", "NameError"}
                          => Untouched(Now(d), R)

\* C37: register(op) immediately followed by cancel(op) is a round trip: for
\* a device-create or device-destroy whose register succeeds, the set of
\* devices in the graph, the child count of every device and the operation
\* log are after the cancel what they were before the register
C37_RegisterCancelRoundTrip ==
    \A k \in Kinds \cap CreateDestroy : \A d \in Devs : \A libOk \in LibAnswers(d) :
        Buildable(d)
            => LET R == RegisterResult(k[1], k[2], d, NoFormat, libOk)
                   C == RemoveOperation(R, R.operations[Len(R.operations)], TRUE)
               IN  R.err = NoErr
                       => /\ Members(C.devices) = Members(devices)
                          /\ C.kids = Now(d).kids
                          /\ C.operations = operations

\* p is q with some of its elements left out
RECURSIVE IsSubsequence(_, _)
IsSubsequence(p, q) ==
    IF p = <<>> THEN TRUE
    ELSE IF q = <<>> THEN FALSE
    ELSE IF Head(p) = Head(q) THEN IsSubsequence(Tail(p), Tail(q))
    ELSE IsSubsequence(p, Tail(q))

\* the operations of the log that are the only one on their device
Single(ops) ==
    {o \in Members(ops) : Len(FindOperations(ops, o.device, NoFilter, NoFilter)) = 1}

\* C38: pruning only removes operations: the pruned log is a subsequence of
\* the log before pruning, an operation on a device that has a single
\* operation in the log is never removed, and pruning leaves the device
\* graph unchanged
C38_PruneOnlyRemoves ==
    [][last'.call = "prune"
           => /\ IsSubsequence(operations', operations)
              /\ Single(operations) \subseteq Members(operations')
              /\ devices' = devices
              /\ kids' = kids
              /\ parted' = parted]_vars

\* a log from which pruning takes operations out, and in which it leaves the
\* only operation of another device
C38_SingleKept ==
    LET P == PruneOperations(operations)
    IN  /\ P.err = NoErr
        /\ Len(P.ops) < Len(operations)
        /\ Single(operations) # {}
        /\ Single(operations) \subseteq Members(P.ops)

\* C39: after pruning a log that register and cancel calls have built, the
\* log holds for every device at most one device-destroy and at most one
\* device-create, and where it holds both the device-destroy comes first
C39_OneDestroyOneCreate ==
    LET P == PruneOperations(operations).ops
    IN  \A d \in Devs :
            LET creates == FindOperations(P, d, "create", "device")
                destroys == FindOperations(P, d, "destroy", "device")
            IN  /\ Len(creates) <= 1
                /\ Len(destroys) <= 1
                /\ (creates # <<>> /\ destroys # <<>>)
                       => IndexOf(P, destroys[1]) < IndexOf(P, creates[1])

\* a device with a device-destroy and two device-creates in the log, of which
\* pruning leaves the destroy and, after it, one create
C39_RecreatedTwice ==
    \E d \in Devs :
        LET P == PruneOperations(operations).ops
        IN  /\ Len(Creates(d)) >= 2
            /\ Destroys(d) # <<>>
            /\ Len(FindOperations(P, d, "create", "device")) = 1
            /\ Len(FindOperations(P, d, "destroy", "device")) = 1

\* C40: an operation that a commit has executed without error is not
\* executed again by a later commit on the same tree
C40_ExecutedOnce ==
    last.call = "recommit"
        => \A i \in 1..Len(last.earlier) : \A j \in 1..Len(last.executed) :
               last.earlier[i] # last.executed[j]

====
